---- MODULE Spec2Model ----
(***************************************************************************)
(* A model of the cifsd SMB1 server's handle subsystem: the per-session    *)
(* FID table (fh.c), the per-inode master-file table (fh.c), and the SMB1  *)
(* request handlers that drive them (smb1pdu.c, vfs.c).                    *)
(*                                                                         *)
(* Worker threads run request handlers concurrently.  A handler is cut     *)
(* into steps at the places where the code takes or drops a spinlock, so   *)
(* one action is one critical section (or one lock-free stretch) of the    *)
(* code.  BUG(), BUG_ON() and a NULL dereference end the server: `panic`.  *)
(***************************************************************************)
EXTENDS Integers, Sequences, FiniteSets, TLC

(***************************************************************************)
(* Bounds of the model.                                                    *)
(***************************************************************************)
NWorkers == 2       \* worker threads serving the connection
MaxReq == 4         \* requests the client sends in one run
MaxFaults == 1      \* host failures (dentry_open, allocation) injected in one run
NInodes == 1        \* files of the share
MaxFid == 2         \* largest FID a client request quotes
\* Scaled stand-ins for constants of headers that set the table geometry:
FidUnit == 2        \* 1024 / sizeof(struct cifsd_file *), the growth unit
NrOpenDefault == 2  \* CIFSD_NR_OPEN_DEFAULT, the initial max_fids
BitmapSize == 7     \* CIFSD_BITMAP_SIZE, the ceiling of max_fids
NTrees == 2         \* tree connections of the session where trees are told apart
NUsers == 2         \* accounts of the user database
NHosts == 2         \* peer addresses
MaxChain == 3       \* commands chained in one AndX request
NMids == 2          \* multiplex ids the client uses
MaxWorks == 3       \* requests received on the connection in one run
SeqMod == 8         \* scaled stand-in for the range of sess->sequence_number
NFilps == 2         \* open files of the inode
MaxOff == 3         \* largest byte offset of a lock or a read
MaxCount == 3       \* largest byte count of a read or a write
XattrSizeMax == 3   \* scaled stand-in for XATTR_SIZE_MAX, the cap of a stream's value
MaxLocks == 2       \* byte-range locks held on the inode
MaxEntries == 3     \* entries of the directory a search lists
PageSize == 64      \* bytes of the page smb_filldir fills: room for two records
MaxSearchCount == 3 \* entries a FIND request leaves room for
MaxFinds == 3       \* FIND requests the client sends on one search
MaxSetups == 4      \* SESSION_SETUP_ANDX requests sent on one connection
MaxShares == 3      \* shares the configuration adds
MaxTcons == 3       \* tree connections made in one run
MaxDiff == 2        \* fields of the stat that changed since the durable state was stored

CIFSD_START_FID == 1
TidRange == 65536                  \* the values of a __u16: the range of the counter tid
sizeof_smb_dirent == 24            \* sizeof(struct smb_dirent), before the name
sizeof_FILE_DIRECTORY_INFO == 65   \* sizeof(FILE_DIRECTORY_INFO), with FileName[1]

Workers == 1..NWorkers
Inodes == 1..NInodes
NoFile == 0         \* a NULL struct cifsd_file *
NoMfp == 0          \* a NULL struct cifsd_mfile *
InvalidFid == 65535 \* the 0xFFFF smb_dentry_open leaves in *ret_id

VARIABLES
    ftab,           \* sess->fidtable.ftab: max_fids, start_pos, cifsd_bitmap, fileid
    file,           \* every struct cifsd_file allocated so far, by allocation order
    mfile,          \* every struct cifsd_mfile allocated so far
    mfp_hashtable,  \* the master files hashed, newest first (hlist_add_head)
    exists,         \* the host filesystem: whether the inode's path is linked
    conn,           \* struct connection: tcp_status, req_running, sess_count
    sess,           \* struct cifsd_sess: alive, tcon_list
    pc,             \* where each worker is in its handler
    req,            \* the request each worker is serving
    id,             \* handler local: the fid being allocated, looked up or closed
    fp,             \* handler local: struct cifsd_file *fp
    mfp,            \* handler local: struct cifsd_mfile *mfp
    rsp,            \* the response each worker's handler has filled in
    panic,          \* "none", or how the server died: "BUG", "oops"
    nreq,           \* requests dispatched so far
    nfault,         \* host failures injected so far
    closed,         \* history: the fids close_id has unbound and nobody got since
    released,       \* history: the files whose close_id went through the master file
    ss,             \* session setup: the connection's status, session list and count
    tcx,            \* tree connect: the share, the peer, the user, and the outcome
    ox,             \* an open on a tree connection: the request and what it did
    ax,             \* an AndX chain: the commands and the response blocks written
    cx,             \* NT_CANCEL: the in-flight list, the sequence number, what was sent
    rx,             \* a read under byte-range locks: the locks, the request, the answer
    dx,             \* a directory search: the directory, the page, the offset, the pages sent
    sx,             \* a security descriptor: the mode, the DACL built from it, the mode read back
    gx,             \* a table scan beside opens that grow the table: which table each one holds
    nx,             \* an NT_CREATE_ANDX on a tree connection: the request and what it did
    lx,             \* the locks each thread holds on its way through a handle function
    tx,             \* the shares added, the tid counter, and the tree connections made
    kx              \* a durable reconnect: the stat stored, the stat now, the verdict

\* The handle subsystem's state, and the state of the other subsystems.
core == <<ftab, file, mfile, mfp_hashtable, exists, conn, sess, pc, req, id, fp,
          mfp, rsp, panic, nreq, nfault, closed, released>>
aux == <<ss, tcx, ox, ax, cx, rx, dx, sx, gx, nx, lx, tx, kx>>

vars == <<ftab, file, mfile, mfp_hashtable, exists, conn, sess, pc, req, id, fp,
          mfp, rsp, panic, nreq, nfault, closed, released, ss, tcx, ox, ax, cx, rx,
          dx, sx, gx, nx, lx, tx, kx>>

Min(S) == CHOOSE x \in S : \A y \in S : x <= y

(***************************************************************************)
(* The FID table (fh.c).                                                   *)
(***************************************************************************)

\* alloc_fidtable: a zeroed pointer array and a zeroed bitmap of num entries.
alloc_fidtable(num) ==
    [max_fids |-> num, start_pos |-> 0, cifsd_bitmap |-> {},
     fileid |-> [i \in 0..(num - 1) |-> NoFile]]

\* init_fidtable: the session's first table; id 0 is never handed out.
init_fidtable ==
    [alloc_fidtable(NrOpenDefault) EXCEPT !.start_pos = 1]

\* The first zero bit at or after offset, or size when there is none.
cifsd_find_next_zero_bit(bitmap, size, offset) ==
    LET zero == {i \in offset..(size - 1) : i \notin bitmap}
    IN  IF zero = {} THEN size ELSE Min(zero)

\* roundup_pow_of_two(n) for n >= 1.
RECURSIVE pow_of_two_from(_, _)
pow_of_two_from(p, n) == IF p >= n THEN p ELSE pow_of_two_from(2 * p, n)
roundup_pow_of_two(n) == pow_of_two_from(1, n)

\* grow_fidtable's size: the next power of two of units above num.
grow_num(num) == roundup_pow_of_two((num \div FidUnit) + 1) * FidUnit

\* A mutant of copy_fidtable: the new table's slots are not copied.
copy_fidtable_noslots(nftab, oftab) ==
    [nftab EXCEPT !.cifsd_bitmap = oftab.cifsd_bitmap]

\* copy_fidtable: the old slots and bits, the rest zero.  (max_fids is a whole
\* number of bytes in the program, so the byte-wise copy takes every bit.)
copy_fidtable(nftab, oftab) ==
    [nftab EXCEPT
        !.fileid = [i \in 0..(nftab.max_fids - 1) |->
                      IF i < oftab.max_fids THEN oftab.fileid[i] ELSE NoFile],
        !.cifsd_bitmap = oftab.cifsd_bitmap]

\* grow_fidtable's critical section: swap in the bigger table, keep start_pos.
grow_fidtable(cur, num) ==
    IF num >= cur.max_fids
    THEN [copy_fidtable(alloc_fidtable(num), cur) EXCEPT !.start_pos = cur.start_pos]
    ELSE cur

\* A mutant of cifsd_get_unused_id: the bit of the id handed out is not set.
cifsd_get_unused_id_nobit(tab, i) ==
    [tab EXCEPT !.start_pos = i + 1]

\* cifsd_get_unused_id's critical section once a zero bit i is found.
cifsd_get_unused_id(tab, i) ==
    [tab EXCEPT !.cifsd_bitmap = @ \cup {i}, !.start_pos = i + 1]

\* A mutant of cifsd_close_id: the bit is cleared and the hint stays.
cifsd_close_id_nohint(tab, i) ==
    IF i >= tab.max_fids - 1
    THEN tab
    ELSE [tab EXCEPT !.cifsd_bitmap = @ \ {i}]

\* cifsd_close_id: clear the bit and move the hint down; the id max_fids - 1
\* and above is refused.
cifsd_close_id(tab, i) ==
    IF i >= tab.max_fids - 1
    THEN tab
    ELSE [tab EXCEPT !.cifsd_bitmap = @ \ {i},
                     !.start_pos = IF i < @ THEN i ELSE @]

\* get_id_from_fidtable up to the f_state test: the file to hand out, or NULL.
get_id_from_fidtable(tab, i) ==
    IF (i < CIFSD_START_FID) \/ (i > tab.max_fids - 1) THEN NoFile
    ELSE IF tab.fileid[i] = NoFile THEN NoFile
    ELSE IF file[tab.fileid[i]].f_state = "FP_FREEING" THEN NoFile
    ELSE tab.fileid[i]

\* fidtable_lock is free: no worker is between get_id_from_fidtable's f_state
\* test and its fp_get, the one stretch that holds the lock across two steps.
TableLockFree == \A w \in Workers : pc[w] # "lk_get"

(***************************************************************************)
(* The master-file table (fh.c).                                           *)
(***************************************************************************)

\* mfp_lookup: the first hashed master file of the inode, or NULL.
mfp_lookup(inode) ==
    LET hit == {k \in 1..Len(mfp_hashtable) : mfile[mfp_hashtable[k]].m_inode = inode}
    IN  IF hit = {} THEN NoMfp ELSE mfp_hashtable[Min(hit)]

\* mfp_init: a new master file with m_count 1, no flags, an empty fp list.
mfp_init(inode) ==
    [m_inode |-> inode, m_count |-> 1, m_flags |-> {}, m_fp_list |-> <<>>,
     freed |-> FALSE]

(***************************************************************************)
(* The initial state: a connection with one session set up and its trees   *)
(* connected, no file open.                                                *)
(***************************************************************************)
NoReq == [op |-> "none", fid |-> 0, inode |-> 0, access |-> "none", stale |-> FALSE,
          tid |-> 0]
NoRsp == [status |-> "none", fid |-> 0, served |-> NoFile]

CoreInit ==
    /\ ftab = init_fidtable
    /\ file = <<>>
    /\ mfile = <<>>
    /\ mfp_hashtable = <<>>
    /\ exists = [i \in Inodes |-> TRUE]
    /\ conn = [tcp_status |-> "CifsGood", req_running |-> 0, sess_count |-> 1]
    /\ sess = [alive |-> TRUE, listed |-> TRUE, tcon_list |-> {1}]
    /\ pc = [w \in Workers |-> "idle"]
    /\ req = [w \in Workers |-> NoReq]
    /\ id = [w \in Workers |-> 0]
    /\ fp = [w \in Workers |-> NoFile]
    /\ mfp = [w \in Workers |-> NoMfp]
    /\ rsp = [w \in Workers |-> NoRsp]
    /\ panic = "none"
    /\ nreq = 0
    /\ nfault = 0
    /\ closed = {}
    /\ released = {}

\* Nothing is going on in the other subsystems.
Idle == [state |-> "idle"]

Init ==
    /\ CoreInit
    /\ ss = Idle
    /\ tcx = Idle
    /\ ox = Idle
    /\ ax = Idle
    /\ cx = Idle
    /\ rx = Idle
    /\ dx = Idle
    /\ sx = Idle
    /\ gx = Idle
    /\ nx = Idle
    /\ lx = Idle
    /\ tx = Idle
    /\ kx = Idle

(***************************************************************************)
(* The requests a client sends.  NT_CREATE_ANDX asks for DELETE access,    *)
(* with or without the FILE_DELETE_ON_CLOSE option; OPEN_ANDX has no such  *)
(* access; SET_DISPOSITION carries DeletePending = 1.                      *)
(***************************************************************************)
OpenReq(o, i, a) == [op |-> o, fid |-> 0, inode |-> i, access |-> a, stale |-> FALSE,
                     tid |-> 1]
FidReq(o, f) == [op |-> o, fid |-> f, inode |-> 0, access |-> "none", stale |-> FALSE,
                 tid |-> 1]

Requests ==
    {OpenReq("NT_CREATE", i, a) : i \in Inodes, a \in {"DELETE", "DELETE_ON_CLOSE"}}
    \cup {OpenReq("OPEN_ANDX", i, "none") : i \in Inodes}
    \cup {FidReq(o, f) : o \in {"READ", "SET_DISP", "FIND_NEXT", "CLOSE"}, f \in 1..MaxFid}
    \cup {FidReq("LOGOFF", 0)}

\* Where a handler starts, and where it goes on after get_id_from_fidtable.
FirstStep(op) ==
    CASE op \in {"NT_CREATE", "OPEN_ANDX"} -> "alloc"
      [] op = "LOGOFF" -> "lo_begin"
      [] op = "TREE_DISCONNECT" -> "td_begin"
      [] OTHER -> "lookup"

AfterLookup(op) ==
    CASE op = "NT_CREATE" -> "mfp_lookup"
      [] op = "READ" -> "r_io"
      [] op = "SET_DISP" -> "sd_set"
      [] op = "FIND_NEXT" -> "fn_dir"
      [] OTHER -> "cl_state"

\* The handler returns with its response filled in: the status, the Fid an
\* open hands out, and (for the record) the File the request acted on.
Respond(w, st, sv, f) ==
    /\ rsp' = [rsp EXCEPT ![w] = [status |-> st, fid |-> f, served |-> sv]]
    /\ pc' = [pc EXCEPT ![w] = "reply"]
    /\ id' = [id EXCEPT ![w] = 0]
    /\ fp' = [fp EXCEPT ![w] = NoFile]
    /\ mfp' = [mfp EXCEPT ![w] = NoMfp]
    /\ UNCHANGED req

Done(w, st, sv) ==
    /\ Respond(w, st, sv, req[w].fid)
    /\ UNCHANGED conn

\* An open returns: the response carries the Fid smb_dentry_open gave.
DoneOpen(w, st, sv, f) ==
    /\ Respond(w, st, sv, f)
    /\ UNCHANGED conn

\* The server dies in this step: BUG(), BUG_ON() or a NULL dereference.
Die(how) ==
    /\ panic' = how
    /\ UNCHANGED <<ftab, file, mfile, mfp_hashtable, exists, conn, sess, pc, req,
                   id, fp, mfp, rsp, nreq, nfault, closed, released>>

(***************************************************************************)
(* The dispatcher: a request is received by the lowest idle worker and     *)
(* counted in req_running, and smb_check_user_session gates the handler;   *)
(* when the handler has returned the response is sent and the request      *)
(* stops counting.                                                         *)
(***************************************************************************)

\* smb_check_user_session for a command other than NEGOTIATE and
\* SESSION_SETUP: the connection must be CifsGood.
smb_check_user_session(c) == c.tcp_status = "CifsGood"

\* smb_get_cifsd_tcon: 1 with the tree connection of the request's Tid, -1
\* when the session has trees and none has that Tid, 0 (and no tcon) when the
\* session has no tree at all.
smb_get_cifsd_tcon(s, tid) ==
    IF s.tcon_list = {} THEN 0
    ELSE IF tid \in s.tcon_list THEN 1
    ELSE 0 - 1

Receive(w, r) ==
    /\ panic = "none"
    /\ UNCHANGED aux
    /\ pc[w] = "idle"
    /\ \A v \in Workers : v < w => pc[v] # "idle"
    /\ nreq < MaxReq
    /\ conn.tcp_status # "CifsExiting"
    /\ nreq' = nreq + 1
    /\ conn' = [conn EXCEPT !.req_running = @ + 1]
    /\ req' = [req EXCEPT ![w] = [r EXCEPT !.stale = (r.fid \in closed)]]
    /\ IF smb_check_user_session(conn) /\ smb_get_cifsd_tcon(sess, r.tid) >= 0
       THEN /\ pc' = [pc EXCEPT ![w] = FirstStep(r.op)]
            /\ id' = [id EXCEPT ![w] = r.fid]
            /\ UNCHANGED rsp
       ELSE /\ pc' = [pc EXCEPT ![w] = "reply"]
            /\ rsp' = [rsp EXCEPT ![w] = [status |-> "rejected", fid |-> r.fid,
                                          served |-> NoFile]]
            /\ UNCHANGED id
    /\ UNCHANGED <<ftab, file, mfile, mfp_hashtable, exists, sess, fp, mfp,
                   panic, nfault, closed, released>>

SendResponse(w) ==
    /\ panic = "none"
    /\ UNCHANGED aux
    /\ pc[w] = "reply"
    /\ conn' = [conn EXCEPT !.req_running = @ - 1]
    /\ pc' = [pc EXCEPT ![w] = "idle"]
    /\ req' = [req EXCEPT ![w] = NoReq]
    /\ rsp' = [rsp EXCEPT ![w] = NoRsp]
    /\ UNCHANGED <<ftab, file, mfile, mfp_hashtable, exists, sess, id, fp, mfp,
                   panic, nreq, nfault, closed, released>>

(***************************************************************************)
(* smb_dentry_open: cifsd_get_unused_id, growing the table when it is      *)
(* full, then dentry_open and insert_id_in_fidtable.                       *)
(***************************************************************************)

\* The status smb_nt_create_andx and smb_open_andx map an errno to.
OpenStatus(op, err) ==
    CASE err = "EMFILE" -> "TOO_MANY_OPENED_FILES"
      [] err = "ENOENT" /\ op = "NT_CREATE" -> "OBJECT_NAME_NOT_FOUND"
      [] OTHER -> "UNEXPECTED_IO_ERROR"

\* cifsd_get_unused_id, one pass of its locked section.
GetUnusedId(w) ==
    /\ panic = "none"
    /\ UNCHANGED aux
    /\ pc[w] = "alloc"
    /\ TableLockFree
    /\ LET i == cifsd_find_next_zero_bit(ftab.cifsd_bitmap, ftab.max_fids,
                                         ftab.start_pos)
       IN  IF i > ftab.max_fids - 1
           THEN /\ id' = [id EXCEPT ![w] = i]
                /\ pc' = [pc EXCEPT ![w] = "grow"]
                /\ UNCHANGED <<ftab, closed>>
           ELSE /\ ftab' = cifsd_get_unused_id(ftab, i)
                /\ id' = [id EXCEPT ![w] = i]
                /\ closed' = closed \ {i}
                /\ pc' = [pc EXCEPT ![w] = "dopen"]
    /\ UNCHANGED <<file, mfile, mfp_hashtable, exists, conn, sess, req, fp, mfp,
                   rsp, panic, nreq, nfault, released>>

\* grow_fidtable, called with the id the full table gave; EMFILE and ENOMEM
\* end the open, success sends cifsd_get_unused_id round again.
GrowFidtable(w, nomem) ==
    /\ panic = "none"
    /\ UNCHANGED aux
    /\ pc[w] = "grow"
    /\ TableLockFree
    /\ nomem => nfault < MaxFaults
    /\ LET num == grow_num(id[w])
       IN  IF num >= BitmapSize + 1
           THEN /\ Done(w, OpenStatus(req[w].op, "EMFILE"), NoFile)
                /\ UNCHANGED <<ftab, nfault>>
           ELSE IF nomem
           THEN /\ Done(w, OpenStatus(req[w].op, "ENOMEM"), NoFile)
                /\ nfault' = nfault + 1
                /\ UNCHANGED ftab
           ELSE IF num <= id[w]
           THEN /\ Done(w, OpenStatus(req[w].op, "EMFILE"), NoFile)
                /\ UNCHANGED <<ftab, nfault>>
           ELSE /\ ftab' = grow_fidtable(ftab, num)
                /\ pc' = [pc EXCEPT ![w] = "alloc"]
                /\ UNCHANGED <<conn, req, id, fp, mfp, rsp, nfault>>
    /\ UNCHANGED <<file, mfile, mfp_hashtable, exists, sess, panic, nreq, closed,
                   released>>

\* insert_id_in_fidtable's new struct cifsd_file.  fid and bound are history:
\* the id the File was bound to, until delete_id_from_fidtable unbinds it.
NewFile(inode, tid, i) ==
    [inode |-> inode, tid |-> tid, f_state |-> "FP_NEW", f_count |-> 0,
     f_mfp |-> NoMfp, is_nt_open |-> FALSE, node |-> "init", freed |-> FALSE,
     fid |-> i, bound |-> TRUE]

\* The rest of smb_dentry_open.  fault is what the host refuses: "dentry"
\* fails dentry_open, "nomem" fails insert_id_in_fidtable's allocation.
DentryOpen(w, fault) ==
    /\ panic = "none"
    /\ UNCHANGED aux
    /\ pc[w] = "dopen"
    /\ TableLockFree
    /\ fault # "none" => nfault < MaxFaults
    /\ IF fault = "dentry"
       THEN /\ ftab' = cifsd_close_id(ftab, id[w])
            /\ nfault' = nfault + 1
            /\ Done(w, OpenStatus(req[w].op, "ENOENT"), NoFile)
            /\ UNCHANGED <<file, panic>>
       ELSE IF fault = "nomem"
       THEN \* err is still 0: the open is answered with *ret_id, 0xFFFF
            /\ ftab' = cifsd_close_id(ftab, id[w])
            /\ nfault' = nfault + 1
            /\ IF req[w].op = "NT_CREATE"
               THEN /\ id' = [id EXCEPT ![w] = InvalidFid]
                    /\ pc' = [pc EXCEPT ![w] = "lookup"]
                    /\ UNCHANGED <<conn, req, fp, mfp, rsp>>
               ELSE DoneOpen(w, "OK", NoFile, InvalidFid)
            /\ UNCHANGED <<file, panic>>
       ELSE IF ftab.fileid[id[w]] # NoFile
       THEN Die("BUG")
       ELSE /\ file' = Append(file, NewFile(req[w].inode, req[w].tid, id[w]))
            /\ ftab' = [ftab EXCEPT !.fileid[id[w]] = Len(file) + 1]
            /\ IF req[w].op = "NT_CREATE"
               THEN /\ pc' = [pc EXCEPT ![w] = "lookup"]
                    /\ UNCHANGED <<conn, req, id, fp, mfp, rsp>>
               ELSE DoneOpen(w, "OK", Len(file) + 1, id[w])
            /\ UNCHANGED <<nfault, panic>>
    /\ UNCHANGED <<mfile, mfp_hashtable, exists, sess, nreq, closed, released>>

(***************************************************************************)
(* get_id_from_fidtable, in two steps: the tests under fidtable_lock and   *)
(* f_lock, then (f_lock dropped) fp_get and the return.                    *)
(***************************************************************************)
Lookup(w) ==
    /\ panic = "none"
    /\ UNCHANGED aux
    /\ pc[w] = "lookup"
    /\ TableLockFree
    /\ LET f == get_id_from_fidtable(ftab, id[w])
       IN  /\ fp' = [fp EXCEPT ![w] = f]
           /\ pc' = [pc EXCEPT ![w] = IF f = NoFile THEN AfterLookup(req[w].op)
                                      ELSE "lk_get"]
    /\ UNCHANGED <<ftab, file, mfile, mfp_hashtable, exists, conn, sess, req, id,
                   mfp, rsp, panic, nreq, nfault, closed, released>>

\* fp_get.
fp_get(f) == [file EXCEPT ![f].f_count = @ + 1]

\* fp_put.
fp_put(f) == [file EXCEPT ![f].f_count = @ - 1]

LookupGet(w) ==
    /\ panic = "none"
    /\ UNCHANGED aux
    /\ pc[w] = "lk_get"
    /\ file' = fp_get(fp[w])
    /\ pc' = [pc EXCEPT ![w] = AfterLookup(req[w].op)]
    /\ UNCHANGED <<ftab, mfile, mfp_hashtable, exists, conn, sess, req, id, fp,
                   mfp, rsp, panic, nreq, nfault, closed, released>>

(***************************************************************************)
(* smb_nt_create_andx after smb_dentry_open: the File is looked up again   *)
(* (the reference is kept), its master file is found or made, and the File *)
(* is put on the master file's list.                                       *)
(***************************************************************************)
MfpLookup(w) ==
    /\ panic = "none"
    /\ UNCHANGED aux
    /\ pc[w] = "mfp_lookup"
    /\ IF fp[w] = NoFile
       THEN /\ DoneOpen(w, "OK", NoFile, id[w])
            /\ UNCHANGED mfile
       ELSE LET m == mfp_lookup(file[fp[w]].inode)
            IN  /\ mfp' = [mfp EXCEPT ![w] = m]
                /\ mfile' = IF m = NoMfp THEN mfile
                            ELSE [mfile EXCEPT ![m].m_count = @ + 1]
                /\ pc' = [pc EXCEPT ![w] = IF m = NoMfp THEN "mfp_init" ELSE "list_add"]
                /\ UNCHANGED <<conn, req, id, fp, rsp>>
    /\ UNCHANGED <<ftab, file, mfp_hashtable, exists, sess, panic, nreq, nfault,
                   closed, released>>

\* kmalloc and mfp_init; insert_mfp_hash puts the new master file first.
MfpInit(w, nomem) ==
    /\ panic = "none"
    /\ UNCHANGED aux
    /\ pc[w] = "mfp_init"
    /\ nomem => nfault < MaxFaults
    /\ IF nomem
       THEN /\ nfault' = nfault + 1
            /\ DoneOpen(w, OpenStatus(req[w].op, "ENOMEM"), NoFile, id[w])
            /\ UNCHANGED <<mfile, mfp_hashtable>>
       ELSE /\ mfile' = Append(mfile, mfp_init(file[fp[w]].inode))
            /\ mfp_hashtable' = <<Len(mfile) + 1>> \o mfp_hashtable
            /\ mfp' = [mfp EXCEPT ![w] = Len(mfile) + 1]
            /\ pc' = [pc EXCEPT ![w] = "list_add"]
            /\ UNCHANGED <<conn, req, id, fp, rsp, nfault>>
    /\ UNCHANGED <<ftab, file, exists, sess, panic, nreq, closed, released>>

\* list_add, atomic_inc(m_count), f_mfp, is_nt_open and S_DEL_ON_CLS, then the
\* response.
ListAdd(w) ==
    /\ panic = "none"
    /\ UNCHANGED aux
    /\ pc[w] = "list_add"
    /\ LET f == fp[w]
           m == mfp[w]
           del == req[w].access \in {"DELETE", "DELETE_ON_CLOSE"}
       IN  IF mfile[m].freed
           THEN Die("uaf")
           ELSE /\ mfile' = [mfile EXCEPT
                               ![m].m_fp_list = <<f>> \o @,
                               ![m].m_count = @ + 1,
                               ![m].m_flags = IF req[w].access = "DELETE_ON_CLOSE"
                                              THEN @ \cup {"S_DEL_ON_CLS"} ELSE @]
                /\ file' = [file EXCEPT ![f].f_mfp = m, ![f].node = "linked",
                                        ![f].is_nt_open = del]
                /\ DoneOpen(w, "OK", f, id[w])
                /\ UNCHANGED panic
    /\ UNCHANGED <<ftab, mfp_hashtable, exists, sess, nreq, nfault, closed,
                   released>>

(***************************************************************************)
(* smb_read_andx over smb_vfs_read: the reference is put after the read.   *)
(***************************************************************************)
ReadAndX(w) ==
    /\ panic = "none"
    /\ UNCHANGED aux
    /\ pc[w] = "r_io"
    /\ IF fp[w] = NoFile
       THEN /\ Done(w, "INVALID_HANDLE", NoFile)
            /\ UNCHANGED file
       ELSE /\ file' = fp_put(fp[w])
            /\ Done(w, "OK", fp[w])
    /\ UNCHANGED <<ftab, mfile, mfp_hashtable, exists, sess, panic, nreq, nfault,
                   closed, released>>

(***************************************************************************)
(* smb_set_dispostion with DeletePending set: the reference is kept.       *)
(***************************************************************************)
SetDisposition(w) ==
    /\ panic = "none"
    /\ UNCHANGED aux
    /\ pc[w] = "sd_set"
    /\ LET f == fp[w]
       IN  IF f = NoFile
           THEN /\ Done(w, "INVALID_PARAMETER", NoFile)
                /\ UNCHANGED <<mfile, panic>>
           ELSE IF ~file[f].is_nt_open
           THEN /\ Done(w, "ACCESS_DENIED", NoFile)
                /\ UNCHANGED <<mfile, panic>>
           ELSE IF file[f].f_mfp = NoMfp
           THEN Die("oops")
           ELSE IF mfile[file[f].f_mfp].freed
           THEN Die("uaf")
           ELSE /\ mfile' = [mfile EXCEPT ![file[f].f_mfp].m_flags =
                                              @ \cup {"S_DEL_ON_CLS"}]
                /\ Done(w, "OK", f)
                /\ UNCHANGED panic
    /\ UNCHANGED <<ftab, file, mfp_hashtable, exists, sess, nreq, nfault, closed,
                   released>>

(***************************************************************************)
(* find_next on a handle of a regular file: smb_vfs_readdir fails, nothing *)
(* is returned and the reference is kept.                                  *)
(***************************************************************************)
FindNext(w) ==
    /\ panic = "none"
    /\ UNCHANGED aux
    /\ pc[w] = "fn_dir"
    /\ Done(w, "UNEXPECTED_IO_ERROR", NoFile)
    /\ UNCHANGED <<ftab, file, mfile, mfp_hashtable, exists, sess, panic, nreq,
                   nfault, closed, released>>

(***************************************************************************)
(* close_id, after its get_id_from_fidtable.  It is called by smb_close    *)
(* and, for every bound slot, by destroy_fidtable.                         *)
(***************************************************************************)

\* close_id returns to its caller: smb_close answers, destroy_fidtable goes on
\* with the next slot.
CloseReturn(w, err) ==
    IF req[w].op = "LOGOFF"
    THEN /\ pc' = [pc EXCEPT ![w] = "lo_scan"]
         /\ id' = [id EXCEPT ![w] = @ + 1]
         /\ fp' = [fp EXCEPT ![w] = NoFile]
         /\ mfp' = [mfp EXCEPT ![w] = NoMfp]
         /\ UNCHANGED <<conn, req, rsp>>
    ELSE IF req[w].op = "TREE_DISCONNECT"
    THEN /\ pc' = [pc EXCEPT ![w] = "td_scan"]
         /\ id' = [id EXCEPT ![w] = @ + 1]
         /\ fp' = [fp EXCEPT ![w] = NoFile]
         /\ mfp' = [mfp EXCEPT ![w] = NoMfp]
         /\ UNCHANGED <<conn, req, rsp>>
    ELSE Done(w, IF err THEN "INVALID_HANDLE" ELSE "OK", NoFile)

\* The File goes FREEING and leaves its master file's list.  A second list_del
\* of the same node meets the list poison: an oops, or with list debugging a
\* warning and nothing more (skip).
CloseState(w, skip) ==
    /\ panic = "none"
    /\ UNCHANGED aux
    /\ pc[w] = "cl_state"
    /\ LET f == fp[w]
           m == IF f = NoFile THEN NoMfp ELSE file[f].f_mfp
       IN  IF f = NoFile
           THEN /\ CloseReturn(w, TRUE)
                /\ UNCHANGED <<file, mfile, panic>>
           ELSE IF m = NoMfp
           THEN /\ file' = [file EXCEPT ![f].f_state = "FP_FREEING"]
                /\ panic' = "oops"
                /\ UNCHANGED <<mfile, conn, pc, req, id, fp, mfp, rsp>>
           ELSE IF mfile[m].freed
           THEN /\ file' = [file EXCEPT ![f].f_state = "FP_FREEING"]
                /\ panic' = "uaf"
                /\ UNCHANGED <<mfile, conn, pc, req, id, fp, mfp, rsp>>
           ELSE IF file[f].node = "poison" /\ ~skip
           THEN /\ file' = [file EXCEPT ![f].f_state = "FP_FREEING"]
                /\ panic' = "oops"
                /\ UNCHANGED <<mfile, conn, pc, req, id, fp, mfp, rsp>>
           ELSE /\ file' = [file EXCEPT ![f].f_state = "FP_FREEING",
                                        ![f].node = "poison"]
                /\ mfile' = [mfile EXCEPT ![m].m_fp_list =
                                SelectSeq(@, LAMBDA x : x # f)]
                /\ mfp' = [mfp EXCEPT ![w] = m]
                /\ pc' = [pc EXCEPT ![w] = "cl_mfp"]
                /\ UNCHANGED <<conn, req, id, fp, rsp, panic>>
    /\ UNCHANGED <<ftab, mfp_hashtable, exists, sess, nreq, nfault, closed,
                   released>>

\* atomic_dec_and_test(m_count): at zero, a delete-on-close file is unlinked
\* and the master file is unhashed and freed.
CloseMfp(w) ==
    /\ panic = "none"
    /\ UNCHANGED aux
    /\ pc[w] = "cl_mfp"
    /\ LET m == mfp[w]
       IN  IF mfile[m].freed
           THEN Die("uaf")
           ELSE /\ IF mfile[m].m_count - 1 = 0
                   THEN /\ exists' = IF "S_DEL_ON_CLS" \in mfile[m].m_flags
                                     THEN [exists EXCEPT ![mfile[m].m_inode] = FALSE]
                                     ELSE exists
                        /\ mfile' = [mfile EXCEPT ![m].m_count = 0,
                                                  ![m].m_flags = @ \ {"S_DEL_ON_CLS"},
                                                  ![m].freed = TRUE]
                        /\ mfp_hashtable' = SelectSeq(mfp_hashtable, LAMBDA x : x # m)
                   ELSE /\ mfile' = [mfile EXCEPT ![m].m_count = @ - 1]
                        /\ UNCHANGED <<exists, mfp_hashtable>>
                /\ released' = released \cup {fp[w]}
                /\ pc' = [pc EXCEPT ![w] = "cl_delete"]
                /\ UNCHANGED <<panic>>
    /\ UNCHANGED <<ftab, file, conn, sess, req, id, fp, mfp, rsp, nreq, nfault,
                   closed>>

\* A mutant of wait_on_freeing_fp's condition: the closer never waits.
freeing_done_nowait(files, f) == TRUE

\* wait_on_freeing_fp's condition: nobody holds the File any more.
freeing_done(files, f) == files[f].f_count = 0

\* kmem_cache_free of the File, then close_id's tail: cifsd_close_id and
\* filp_close.
FreeFile(w, f, files) ==
    /\ file' = [files EXCEPT ![f].freed = TRUE]
    /\ ftab' = cifsd_close_id([ftab EXCEPT !.fileid[id[w]] = NoFile], id[w])
    /\ CloseReturn(w, FALSE)
    /\ UNCHANGED panic

\* delete_id_from_fidtable up to its wait.
DeleteId(w) ==
    /\ panic = "none"
    /\ UNCHANGED aux
    /\ pc[w] = "cl_delete"
    /\ TableLockFree
    /\ LET f == ftab.fileid[id[w]]
           files == [fp_put(f) EXCEPT ![f].f_mfp = NoMfp, ![f].bound = FALSE]
       IN  IF f = NoFile
           THEN /\ Die("BUG")
           ELSE /\ closed' = closed \cup {id[w]}
                /\ IF freeing_done(files, f)
                   THEN FreeFile(w, f, files)
                   ELSE /\ file' = files
                        /\ ftab' = [ftab EXCEPT !.fileid[id[w]] = NoFile]
                        /\ fp' = [fp EXCEPT ![w] = f]
                        /\ pc' = [pc EXCEPT ![w] = "cl_wait"]
                        /\ UNCHANGED <<conn, req, id, mfp, rsp, panic>>
    /\ UNCHANGED <<mfile, mfp_hashtable, exists, sess, nreq, nfault, released>>

\* wait_on_freeing_fp: woken at f_count zero the File is freed; the timeout
\* with f_count still up is BUG().
WaitOnFreeingFp(w) ==
    /\ panic = "none"
    /\ UNCHANGED aux
    /\ pc[w] = "cl_wait"
    /\ IF freeing_done(file, fp[w])
       THEN /\ TableLockFree
            /\ FreeFile(w, fp[w], file)
            /\ UNCHANGED closed
       ELSE Die("BUG")
    /\ UNCHANGED <<mfile, mfp_hashtable, exists, sess, nreq, nfault, released>>

(***************************************************************************)
(* smb_session_disconnect (LOGOFF) and destroy_fidtable.                   *)
(***************************************************************************)

\* A table that is not there: sess->fidtable.ftab = NULL.
NullTable == alloc_fidtable(0)

\* A mutant of the LOGOFF wait: it does not wait for the running requests.
logoff_may_proceed_nowait(c) == TRUE

\* The condition smb_session_disconnect waits for on req_running_q.
logoff_may_proceed(c) == c.req_running = 1

LogoffBegin(w) ==
    /\ panic = "none"
    /\ UNCHANGED aux
    /\ pc[w] = "lo_begin"
    /\ conn' = [conn EXCEPT !.tcp_status = "CifsNeedReconnect"]
    /\ pc' = [pc EXCEPT ![w] = "lo_wait"]
    /\ UNCHANGED <<ftab, file, mfile, mfp_hashtable, exists, sess, req, id, fp, mfp,
                   rsp, panic, nreq, nfault, closed, released>>

\* The wait is over: every tcon is freed and the session is unlisted;
\* destroy_fidtable starts at slot 0.
LogoffWait(w) ==
    /\ panic = "none"
    /\ UNCHANGED aux
    /\ pc[w] = "lo_wait"
    /\ logoff_may_proceed(conn)
    /\ sess' = [sess EXCEPT !.tcon_list = {}, !.listed = FALSE]
    /\ id' = [id EXCEPT ![w] = 0]
    /\ pc' = [pc EXCEPT ![w] = "lo_scan"]
    /\ UNCHANGED <<ftab, file, mfile, mfp_hashtable, exists, conn, req, fp, mfp,
                   rsp, panic, nreq, nfault, closed, released>>

\* destroy_fidtable's loop: close_id for the next bound slot; after the last
\* one the table and the session are freed and the connection is CifsExiting.
DestroyFidtable(w) ==
    /\ panic = "none"
    /\ UNCHANGED aux
    /\ pc[w] = "lo_scan"
    /\ LET bound == {i \in id[w]..(ftab.max_fids - 1) : ftab.fileid[i] # NoFile}
       IN  IF bound # {}
           THEN /\ id' = [id EXCEPT ![w] = Min(bound)]
                /\ pc' = [pc EXCEPT ![w] = "lookup"]
                /\ UNCHANGED <<ftab, sess, conn, req, fp, mfp, rsp>>
           ELSE /\ ftab' = NullTable
                /\ sess' = [sess EXCEPT !.alive = FALSE]
                /\ Respond(w, "OK", NoFile, 0)
                /\ conn' = [conn EXCEPT !.sess_count = @ - 1,
                                        !.tcp_status = "CifsExiting"]
    /\ UNCHANGED <<file, mfile, mfp_hashtable, exists, panic, nreq, nfault, closed,
                   released>>

(***************************************************************************)
(* smb_tree_disconnect and close_opens_from_fibtable.                      *)
(***************************************************************************)

\* The tree connection is unlisted and freed; the scan starts at slot 0.
TreeDisconnect(w) ==
    /\ panic = "none"
    /\ UNCHANGED aux
    /\ pc[w] = "td_begin"
    /\ IF req[w].tid \notin sess.tcon_list
       THEN /\ Done(w, "NO_SUCH_USER", NoFile)
            /\ UNCHANGED sess
       ELSE /\ sess' = [sess EXCEPT !.tcon_list = @ \ {req[w].tid}]
            /\ id' = [id EXCEPT ![w] = 0]
            /\ pc' = [pc EXCEPT ![w] = "td_scan"]
            /\ UNCHANGED <<conn, req, fp, mfp, rsp>>
    /\ UNCHANGED <<ftab, file, mfile, mfp_hashtable, exists, panic, nreq, nfault,
                   closed, released>>

\* close_opens_from_fibtable's loop: close_id for the next bound slot whose
\* File carries the tree id; after the last slot the handler returns 0.
CloseOpens(w) ==
    /\ panic = "none"
    /\ UNCHANGED aux
    /\ pc[w] = "td_scan"
    /\ LET match == {i \in id[w]..(ftab.max_fids - 1) :
                        /\ ftab.fileid[i] # NoFile
                        /\ file[ftab.fileid[i]].tid = req[w].tid}
       IN  IF match # {}
           THEN /\ id' = [id EXCEPT ![w] = Min(match)]
                /\ pc' = [pc EXCEPT ![w] = "lookup"]
                /\ UNCHANGED <<conn, req, fp, mfp, rsp>>
           ELSE Done(w, "OK", NoFile)
    /\ UNCHANGED <<ftab, file, mfile, mfp_hashtable, exists, sess, panic, nreq,
                   nfault, closed, released>>

(***************************************************************************)
(* The specification.                                                      *)
(***************************************************************************)
WorkerStep(w) ==
    \/ SendResponse(w)
    \/ GetUnusedId(w)
    \/ \E nomem \in BOOLEAN : GrowFidtable(w, nomem)
    \/ \E fault \in {"none", "dentry", "nomem"} : DentryOpen(w, fault)
    \/ Lookup(w)
    \/ LookupGet(w)
    \/ MfpLookup(w)
    \/ \E nomem \in BOOLEAN : MfpInit(w, nomem)
    \/ ListAdd(w)
    \/ ReadAndX(w)
    \/ SetDisposition(w)
    \/ FindNext(w)
    \/ \E skip \in BOOLEAN : CloseState(w, skip)
    \/ CloseMfp(w)
    \/ DeleteId(w)
    \/ WaitOnFreeingFp(w)
    \/ LogoffBegin(w)
    \/ LogoffWait(w)
    \/ DestroyFidtable(w)

Next ==
    \/ \E w \in Workers, r \in Requests : Receive(w, r)
    \/ \E w \in Workers : WorkerStep(w)

Spec == Init /\ [][Next]_vars

(***************************************************************************)
(* The session with several trees connected: opens on every tree, and the  *)
(* TREE_DISCONNECT of the first.                                           *)
(***************************************************************************)
Trees == 1..NTrees

TreeReq(t) == [FidReq("TREE_DISCONNECT", 0) EXCEPT !.tid = t]

TreeRequests ==
    {[OpenReq("NT_CREATE", i, "DELETE") EXCEPT !.tid = t] : i \in Inodes, t \in Trees}
    \cup {[OpenReq("OPEN_ANDX", i, "none") EXCEPT !.tid = t] : i \in Inodes, t \in Trees}
    \cup {TreeReq(1)}

InitTree ==
    /\ ftab = init_fidtable
    /\ file = <<>>
    /\ mfile = <<>>
    /\ mfp_hashtable = <<>>
    /\ exists = [i \in Inodes |-> TRUE]
    /\ conn = [tcp_status |-> "CifsGood", req_running |-> 0, sess_count |-> 1]
    /\ sess = [alive |-> TRUE, listed |-> TRUE, tcon_list |-> Trees]
    /\ pc = [w \in Workers |-> "idle"]
    /\ req = [w \in Workers |-> NoReq]
    /\ id = [w \in Workers |-> 0]
    /\ fp = [w \in Workers |-> NoFile]
    /\ mfp = [w \in Workers |-> NoMfp]
    /\ rsp = [w \in Workers |-> NoRsp]
    /\ panic = "none"
    /\ nreq = 0
    /\ nfault = 0
    /\ closed = {}
    /\ released = {}
    /\ ss = Idle
    /\ tcx = Idle
    /\ ox = Idle
    /\ ax = Idle
    /\ cx = Idle
    /\ rx = Idle
    /\ dx = Idle
    /\ sx = Idle
    /\ gx = Idle
    /\ nx = Idle
    /\ lx = Idle
    /\ tx = Idle
    /\ kx = Idle

TreeStep(w) ==
    \/ SendResponse(w)
    \/ GetUnusedId(w)
    \/ \E nomem \in BOOLEAN : GrowFidtable(w, nomem)
    \/ \E fault \in {"none", "dentry", "nomem"} : DentryOpen(w, fault)
    \/ Lookup(w)
    \/ LookupGet(w)
    \/ MfpLookup(w)
    \/ \E nomem \in BOOLEAN : MfpInit(w, nomem)
    \/ ListAdd(w)
    \/ \E skip \in BOOLEAN : CloseState(w, skip)
    \/ CloseMfp(w)
    \/ DeleteId(w)
    \/ WaitOnFreeingFp(w)
    \/ TreeDisconnect(w)
    \/ CloseOpens(w)

NextTree ==
    \/ \E w \in Workers, r \in TreeRequests : Receive(w, r)
    \/ \E w \in Workers : TreeStep(w)

SpecTree == InitTree /\ [][NextTree]_vars

(***************************************************************************)
(* Session setup (smb1pdu.c): NEGOTIATE and SESSION_SETUP_ANDX on one      *)
(* connection.  conn->cifsd_sess is the list of the connection's sessions, *)
(* newest first; a session is active when it is listed and valid.          *)
(***************************************************************************)
Users == 1..NUsers      \* the accounts of the user database; 0 is no account

InitSetup ==
    /\ CoreInit
    /\ ss = [state |-> "run", tcp_status |-> "CifsNew", sess_count |-> 0,
             cifsd_sess |-> <<>>, vuid |-> 0, n |-> 0, status |-> "none"]
    /\ tcx = Idle
    /\ ox = Idle
    /\ ax = Idle
    /\ cx = Idle
    /\ rx = Idle
    /\ dx = Idle
    /\ sx = Idle
    /\ gx = Idle
    /\ nx = Idle
    /\ lx = Idle
    /\ tx = Idle
    /\ kx = Idle

\* smb_negotiate: the dialect is agreed and the connection awaits a setup.
Negotiate ==
    /\ ss.tcp_status = "CifsNew"
    /\ ss' = [ss EXCEPT !.tcp_status = "CifsNeedNegotiate", !.status = "OK"]
    /\ UNCHANGED <<core, tcx, ox, ax, cx, rx, dx, sx, gx, nx, lx, tx, kx>>

\* smb_check_user_session followed by smb_session_setup_andx.  The check
\* clears smb_work->sess and returns at once for SESSION_SETUP_ANDX, so the
\* handler always builds a session and lists it at the head; it unlists it
\* again on an error.  fail is the step that fails: the allocation of the
\* session, the authentication, or init_fidtable.
SessionSetup(user, fail) ==
    /\ ss.tcp_status # "CifsNew"
    /\ ss.n < MaxSetups
    /\ LET built == [usr |-> user, valid |-> FALSE]
       IN  IF fail = "kzalloc"
           THEN ss' = [ss EXCEPT !.n = @ + 1, !.status = "LOGON_FAILURE"]
           ELSE IF user \notin Users \/ fail = "auth"
           THEN ss' = [ss EXCEPT !.n = @ + 1, !.status = "LOGON_FAILURE"]
           ELSE IF fail = "init_fidtable"
           THEN ss' = [ss EXCEPT !.n = @ + 1, !.status = "LOGON_FAILURE",
                                 !.sess_count = @ + 1]
           ELSE ss' = [ss EXCEPT !.n = @ + 1, !.status = "OK",
                                 !.sess_count = @ + 1,
                                 !.cifsd_sess = <<[built EXCEPT !.valid = TRUE]>> \o @,
                                 !.vuid = user,
                                 !.tcp_status = "CifsGood"]
    /\ UNCHANGED <<core, tcx, ox, ax, cx, rx, dx, sx, gx, nx, lx, tx, kx>>

NextSetup ==
    \/ Negotiate
    \/ \E user \in Users \cup {0},
          fail \in {"none", "kzalloc", "auth", "init_fidtable"} :
            SessionSetup(user, fail)

SpecSetup == InitSetup /\ [][NextSetup]_vars

(***************************************************************************)
(* Tree connect (smb1pdu.c) and the share's host and user checks           *)
(* (export.c).  A list of the configuration is a NULL pointer or a string  *)
(* of tokens; the empty string has no token but is not NULL.               *)
(***************************************************************************)
Hosts == 1..NHosts

\* -errno, as the functions return it.
Err(e) ==
    CASE e = "ENOENT" -> 0 - 2
      [] e = "ENOMEM" -> 0 - 12
      [] e = "EACCES" -> 0 - 13
      [] e = "EINVAL" -> 0 - 22
      [] e = "EEXIST" -> 0 - 17
      [] e = "EAGAIN" -> 0 - 11
      [] e = "EISDIR" -> 0 - 21
      [] e = "EIO" -> 0 - 5

NullList == [null |-> TRUE, tokens |-> {}]

\* The lists a configuration gives over the names S: unset, empty, one name.
ConfigLists(S) == {NullList} \cup {[null |-> FALSE, tokens |-> T] : T \in {{}} \cup {{x} : x \in S}}

\* chktkn: 0 for no list, 1 when str2 is a token of the list, -ENOENT when it
\* is not, -ENOMEM when the list cannot be duplicated.
chktkn(userslist, str2, oom) ==
    IF userslist.null THEN 0
    ELSE IF oom THEN Err("ENOMEM")
    ELSE IF str2 \in userslist.tokens THEN 1
    ELSE Err("ENOENT")

validate_host(cip, share, oom) ==
    LET asz == IF share.allow_hosts.null THEN 0 ELSE Cardinality(share.allow_hosts.tokens)
        dsz == IF share.deny_hosts.null THEN 0 ELSE Cardinality(share.deny_hosts.tokens)
        allow == chktkn(share.allow_hosts, cip, oom)
        deny == chktkn(share.deny_hosts, cip, oom)
    IN  IF asz = 0 /\ dsz = 0 THEN 1
        ELSE IF allow = Err("ENOENT") THEN Err("EACCES")
        ELSE IF allow < 0 THEN allow
        ELSE IF allow > 0 THEN 1
        ELSE IF deny < 0 THEN Err("ENOMEM")
        ELSE IF asz = 0 /\ deny # 0 THEN Err("EACCES")
        ELSE 1

\* validate_usr: the return value and what *can_write holds afterwards;
\* can_write comes in with whatever the caller's variable held.
validate_usr(usr, share, can_write, oom) ==
    LET inv == chktkn(share.invalid_users, usr, oom)
        cw0 == share.writeable
        cw1 == IF chktkn(share.read_list, usr, oom) > 0 THEN FALSE ELSE cw0
        cw2 == IF chktkn(share.write_list, usr, oom) > 0 THEN TRUE ELSE cw1
    IN  IF ~share.path THEN [rc |-> 1, can_write |-> can_write]
        ELSE IF share.guestok THEN [rc |-> 1, can_write |-> can_write]
        ELSE IF inv = Err("ENOMEM") THEN [rc |-> Err("ENOMEM"), can_write |-> can_write]
        ELSE IF inv > 0 THEN [rc |-> Err("EACCES"), can_write |-> can_write]
        ELSE IF share.valid_users.null THEN [rc |-> 1, can_write |-> cw2]
        ELSE [rc |-> chktkn(share.valid_users, usr, oom), can_write |-> cw2]

\* get_cifsd_share for a tree name that is (named) or is not the share's.
get_cifsd_share(named, cip, usr, share, can_write, oom) ==
    IF ~named THEN [rc |-> Err("ENOENT"), can_write |-> can_write]
    ELSE IF validate_host(cip, share, oom) < 0
    THEN [rc |-> validate_host(cip, share, oom), can_write |-> can_write]
    ELSE validate_usr(usr, share, can_write, oom)

\* A share of the configuration, a peer, a session's user, and the value the
\* handler's uninitialised local can_write happens to hold.
InitTcon ==
    /\ CoreInit
    /\ \E path \in BOOLEAN, guestok \in BOOLEAN, writeable \in BOOLEAN,
          ah \in ConfigLists(Hosts), dh \in ConfigLists(Hosts),
          vu \in ConfigLists(Users), iu \in ConfigLists(Users),
          rl \in ConfigLists(Users), wl \in ConfigLists(Users),
          peer \in Hosts, usr \in Users, stack \in BOOLEAN :
            tcx = [state |-> "req",
                   share |-> [path |-> path, guestok |-> guestok /\ path,
                              writeable |-> writeable,
                              allow_hosts |-> ah, deny_hosts |-> dh,
                              valid_users |-> vu, invalid_users |-> iu,
                              read_list |-> rl, write_list |-> wl],
                   peeraddr |-> peer, usr |-> usr, can_write |-> stack,
                   named |-> TRUE, oom |-> FALSE, host |-> 0, rc |-> 0,
                   tcon |-> FALSE, writeable |-> FALSE, status |-> "none"]
    /\ ss = Idle
    /\ ox = Idle
    /\ ax = Idle
    /\ cx = Idle
    /\ rx = Idle
    /\ dx = Idle
    /\ sx = Idle
    /\ gx = Idle
    /\ nx = Idle
    /\ lx = Idle
    /\ tx = Idle
    /\ kx = Idle

\* smb_tree_connect_andx: the share is looked up and checked, the tree
\* connection is built and takes the value of can_write.
TreeConnect(named, oom) ==
    /\ tcx.state = "req"
    /\ LET got == get_cifsd_share(named, tcx.peeraddr, tcx.usr, tcx.share,
                                  tcx.can_write, oom)
           rc == IF got.rc < 0 THEN got.rc
                 ELSE IF oom THEN Err("ENOMEM")     \* construct_cifsd_tcon
                 ELSE 0
       IN  tcx' = [tcx EXCEPT
                !.state = "done", !.named = named, !.oom = oom,
                !.host = IF named THEN validate_host(tcx.peeraddr, tcx.share, oom) ELSE 0,
                !.rc = rc,
                !.tcon = (rc = 0),
                !.writeable = IF rc = 0 THEN got.can_write ELSE FALSE,
                !.status = CASE rc = 0 -> "OK"
                             [] rc = Err("ENOENT") -> "BAD_NETWORK_PATH"
                             [] rc = Err("ENOMEM") -> "NO_MEMORY"
                             [] rc = Err("EACCES") -> "ACCESS_DENIED"
                             [] OTHER -> "INVALID_PARAMETER"]
    /\ UNCHANGED <<core, ss, ox, ax, cx, rx, dx, sx, gx, nx, lx, tx, kx>>

NextTcon == \E named \in BOOLEAN, oom \in BOOLEAN : TreeConnect(named, oom)

SpecTcon == InitTcon /\ [][NextTcon]_vars

(***************************************************************************)
(* OPEN_ANDX on a tree connection (smb1pdu.c).  The request's Mode gives   *)
(* the access ("READ", "WRITE", "READWRITE", or another value) and its     *)
(* OpenFunction what to do with a file that exists ("NONE", "OAPPEND",     *)
(* "OTRUNC") and whether to create one that does not.                      *)
(***************************************************************************)

\* convert_open_flags: the open(2) flags, or rc < 0.
convert_open_flags(file_present, mode, dispostion) ==
    LET acc == CASE mode = "READ" -> "O_RDONLY"
                 [] mode = "WRITE" -> "O_WRONLY"
                 [] mode = "READWRITE" -> "O_RDWR"
                 [] OTHER -> "O_RDONLY"
        oflags == [rc |-> 0, O_ACCMODE |-> acc, O_APPEND |-> FALSE,
                   O_TRUNC |-> FALSE, O_CREAT |-> FALSE]
    IN  IF file_present
        THEN CASE dispostion.open = "NONE" -> [oflags EXCEPT !.rc = Err("EEXIST")]
               [] dispostion.open = "OAPPEND" -> [oflags EXCEPT !.O_APPEND = TRUE]
               [] dispostion.open = "OTRUNC" -> [oflags EXCEPT !.O_TRUNC = TRUE]
               [] OTHER -> oflags
        ELSE IF dispostion.create
             THEN [oflags EXCEPT !.O_CREAT = TRUE]
             ELSE [oflags EXCEPT !.rc = Err("EINVAL")]

\* An OPEN_ANDX request on a tree connection that is or is not writeable, for
\* a name that is or is not there, of a file whose mode has or lacks write bits.
InitOpen ==
    /\ CoreInit
    /\ \E writeable \in BOOLEAN, present \in BOOLEAN, file_w \in BOOLEAN,
          sharing \in BOOLEAN,
          mode \in {"READ", "WRITE", "READWRITE", "EXECUTE"},
          open \in {"NONE", "OAPPEND", "OTRUNC", "OTHER"}, create \in BOOLEAN :
            ox = [state |-> "req", writeable |-> writeable,
                  file_present |-> present, file_w |-> file_w /\ present,
                  sharing |-> sharing, Mode |-> mode,
                  OpenFunction |-> [open |-> open, create |-> create],
                  created |-> FALSE, truncated |-> FALSE, Fid |-> 0,
                  Access |-> "none", status |-> "none"]
    /\ ss = Idle
    /\ tcx = Idle
    /\ ax = Idle
    /\ cx = Idle
    /\ rx = Idle
    /\ dx = Idle
    /\ sx = Idle
    /\ gx = Idle
    /\ nx = Idle
    /\ lx = Idle
    /\ tx = Idle
    /\ kx = Idle

\* smb_open_andx with smb_dentry_open.  fault is the host call that fails:
\* smb_vfs_create, cifsd_get_unused_id, vfs_truncate or dentry_open.
OpenAndX(fault) ==
    /\ ox.state = "req"
    /\ LET open_flags == convert_open_flags(ox.file_present, ox.Mode, ox.OpenFunction)
           wants_write == open_flags.O_ACCMODE \in {"O_WRONLY", "O_RDWR"}
           create == ~ox.file_present /\ open_flags.O_CREAT
           fail(st) == [ox EXCEPT !.state = "done", !.status = st]
       IN  IF ox.sharing
           THEN ox' = fail("ERRbadaccess")
           ELSE IF open_flags.rc < 0
           THEN ox' = fail(IF ox.file_present THEN "UNSUCCESSFUL"
                           ELSE "UNEXPECTED_IO_ERROR")
           ELSE IF ox.file_present /\ ~ox.file_w /\ wants_write
           THEN ox' = fail("ACCESS_DENIED")
           ELSE IF create /\ fault = "create"
           THEN ox' = fail("UNEXPECTED_IO_ERROR")
           ELSE IF fault = "get_unused_id"
           THEN ox' = [fail("TOO_MANY_OPENED_FILES") EXCEPT !.created = create]
           ELSE IF open_flags.O_TRUNC /\ fault = "truncate"
           THEN ox' = [fail("UNEXPECTED_IO_ERROR") EXCEPT !.created = create]
           ELSE IF fault = "dentry_open"
           THEN ox' = [fail("UNEXPECTED_IO_ERROR") EXCEPT
                          !.created = create, !.truncated = open_flags.O_TRUNC]
           ELSE ox' = [ox EXCEPT
                          !.state = "done", !.status = "OK",
                          !.created = create,
                          !.truncated = open_flags.O_TRUNC,
                          !.Fid = CIFSD_START_FID,
                          !.Access = CASE open_flags.O_ACCMODE = "O_WRONLY" -> "WRITE"
                                       [] open_flags.O_ACCMODE = "O_RDWR" -> "READ_WRITE"
                                       [] OTHER -> "READ"]
    /\ UNCHANGED <<core, ss, tcx, ax, cx, rx, dx, sx, gx, nx, lx, tx, kx>>

NextOpen ==
    \E fault \in {"none", "create", "get_unused_id", "truncate", "dentry_open"} :
        OpenAndX(fault)

SpecOpen == InitOpen /\ [][NextOpen]_vars

(***************************************************************************)
(* AndX chains (smb1pdu.c).  A request is a chain of commands; block k of  *)
(* the request names the command of block k + 1 in its AndXCommand, the    *)
(* last block names 0xFF.  Each handler fills in one block of the          *)
(* response.  A block's place in the buffer is its number in the chain,    *)
(* so the AndXOffset a handler writes (the length of the response so far)  *)
(* is the number of the next block.                                        *)
(***************************************************************************)
AndXCommands == {"SESSION_SETUP_ANDX", "TREE_CONNECT_ANDX", "READ_ANDX"}

RECURSIVE Chains(_)
Chains(n) ==
    IF n = 0 THEN {<<>>}
    ELSE Chains(n - 1) \cup {Append(c, x) : c \in Chains(n - 1), x \in AndXCommands}

\* The tail every AndX handler shares, and what the handlers do on an error:
\* smb_tree_connect_andx writes a closing block at out_err, while
\* smb_session_setup_andx and smb_read_andx return without writing one.  The
\* result is the return value (an AndXCommand to go on with, "0" or "err")
\* and the block written, if any.
andx_handler(cmd, ok, AndXCommand, k) ==
    IF ok
    THEN IF AndXCommand = "0xFF"
         THEN [ret |-> "0", wrote |-> TRUE,
               block |-> [AndXCommand |-> "0xFF", AndXOffset |-> 0]]
         ELSE [ret |-> AndXCommand, wrote |-> TRUE,
               block |-> [AndXCommand |-> AndXCommand, AndXOffset |-> k + 1]]
    ELSE IF cmd = "TREE_CONNECT_ANDX"
         THEN [ret |-> "err", wrote |-> TRUE,
               block |-> [AndXCommand |-> "0xFF", AndXOffset |-> 0]]
         ELSE [ret |-> "err", wrote |-> FALSE,
               block |-> [AndXCommand |-> "0xFF", AndXOffset |-> 0]]

\* andx_request_buffer's walk, on the response: from block i follow
\* AndXOffset until a block with AndXCommand 0xFF; every block on the way is
\* one a handler wrote, they come in order, and the closing block is the last.
RECURSIVE andx_walk(_, _)
andx_walk(blocks, i) ==
    /\ i <= Len(blocks)
    /\ IF blocks[i].AndXCommand = "0xFF"
       THEN i = Len(blocks)
       ELSE blocks[i].AndXOffset = i + 1 /\ andx_walk(blocks, i + 1)

InitAndX ==
    /\ CoreInit
    /\ \E c \in Chains(MaxChain) \ {<<>>} :
          ax = [state |-> "run", chain |-> c, k |-> 1, blocks |-> <<>>,
                failed |-> FALSE, nsent |-> 0]
    /\ ss = Idle
    /\ tcx = Idle
    /\ ox = Idle
    /\ cx = Idle
    /\ rx = Idle
    /\ dx = Idle
    /\ sx = Idle
    /\ gx = Idle
    /\ nx = Idle
    /\ lx = Idle
    /\ tx = Idle
    /\ kx = Idle

\* The dispatcher calls the handler of block k; while the handler returns an
\* AndXCommand it moves on to the next block, otherwise the chain is over.
AndXStep(ok) ==
    /\ ax.state = "run"
    /\ LET k == ax.k
           next == IF k < Len(ax.chain) THEN ax.chain[k + 1] ELSE "0xFF"
           h == andx_handler(ax.chain[k], ok, next, k)
       IN  ax' = [ax EXCEPT
                !.blocks = IF h.wrote THEN Append(@, h.block) ELSE @,
                !.failed = (h.ret = "err"),
                !.k = IF h.ret \in AndXCommands THEN k + 1 ELSE k,
                !.state = IF h.ret \in AndXCommands THEN "run" ELSE "reply"]
    /\ UNCHANGED <<core, ss, tcx, ox, cx, rx, dx, sx, gx, nx, lx, tx, kx>>

\* The one response of the chain is sent.
AndXSend ==
    /\ ax.state = "reply"
    /\ ax' = [ax EXCEPT !.state = "sent", !.nsent = @ + 1]
    /\ UNCHANGED <<core, ss, tcx, ox, cx, rx, dx, sx, gx, nx, lx, tx, kx>>

NextAndX ==
    \/ \E ok \in BOOLEAN : AndXStep(ok)
    \/ AndXSend

SpecAndX == InitAndX /\ [][NextAndX]_vars

(***************************************************************************)
(* NT_CANCEL (smb1pdu.c).  conn->requests lists the requests in flight,    *)
(* oldest first; work is every request received, with its Mid and flags.   *)
(* The session signs: a request verified and a response stamped each take  *)
(* the next sequence number.                                               *)
(***************************************************************************)
Mids == 1..NMids
NoWork == 0

\* ++sess->sequence_number and sess->sequence_number--, in the counter's width.
seq_inc(n) == (n + 1) % SeqMod
seq_dec(n) == (n + SeqMod - 1) % SeqMod

\* A mutant of the list walk: the first request listed, whatever its Mid.
cancel_match_any(requests, work, mid) ==
    IF requests = <<>> THEN 0 ELSE 1

\* smb_nt_cancel's list walk: the place in conn->requests of the first request
\* whose Mid is the cancel's, or 0.
cancel_match(requests, work, mid) ==
    LET hit == {k \in 1..Len(requests) : work[requests[k]].Mid = mid}
    IN  IF hit = {} THEN 0 ELSE Min(hit)

\* The list without its k-th entry (list_del_init).
list_del(requests, k) ==
    [j \in 1..(Len(requests) - 1) |-> IF j < k THEN requests[j] ELSE requests[j + 1]]

\* A mutant of smb_nt_cancel: the request found is detached but not marked.
smb_nt_cancel_nomark(c, mid) ==
    LET k == cancel_match(c.requests, c.work, mid)
    IN  IF k = 0 THEN c
        ELSE [c EXCEPT !.requests = list_del(@, k),
                       !.work[c.requests[k]].added_in_request_list = FALSE,
                       !.sequence_number = seq_dec(@)]

\* smb_nt_cancel's critical section: the first request with the Mid is marked,
\* detached, and the sequence number is taken back by one.
smb_nt_cancel(c, mid) ==
    LET k == cancel_match(c.requests, c.work, mid)
    IN  IF k = 0 THEN c
        ELSE [c EXCEPT !.requests = list_del(@, k),
                       !.work[c.requests[k]].send_no_response = TRUE,
                       !.work[c.requests[k]].added_in_request_list = FALSE,
                       !.sequence_number = seq_dec(@)]

InitCancel ==
    /\ CoreInit
    /\ cx = [state |-> "run", requests |-> <<>>, work |-> <<>>,
             sequence_number |-> 0, cancel |-> NoWork, last |-> "none",
             cancelled |-> {}]
    /\ ss = Idle
    /\ tcx = Idle
    /\ ox = Idle
    /\ ax = Idle
    /\ rx = Idle
    /\ dx = Idle
    /\ sx = Idle
    /\ gx = Idle
    /\ nx = Idle
    /\ lx = Idle
    /\ tx = Idle
    /\ kx = Idle

\* A request with the Mid arrives: its signature is verified and it is put on
\* the in-flight list for its handler to run.
CancelReceive(mid) ==
    /\ cx.state = "run"
    /\ Len(cx.work) < MaxWorks
    /\ cx' = [cx EXCEPT
            !.work = Append(@, [Mid |-> mid, send_no_response |-> FALSE,
                                added_in_request_list |-> TRUE,
                                state |-> "running"]),
            !.requests = Append(@, Len(cx.work) + 1),
            !.sequence_number = seq_inc(@)]
    /\ UNCHANGED <<core, ss, tcx, ox, ax, rx, dx, sx, gx, nx, lx, tx, kx>>

\* An NT_CANCEL quoting the Mid arrives and its handler is about to run.
CancelArrives(mid) ==
    /\ cx.state = "run"
    /\ cx.cancel = NoWork
    /\ cx' = [cx EXCEPT !.cancel = mid]
    /\ UNCHANGED <<core, ss, tcx, ox, ax, rx, dx, sx, gx, nx, lx, tx, kx>>

\* smb_nt_cancel; the cancel itself is never answered.
NtCancel ==
    /\ cx.state = "run"
    /\ cx.cancel # NoWork
    /\ LET k == cancel_match(cx.requests, cx.work, cx.cancel)
       IN  cx' = [smb_nt_cancel(cx, cx.cancel) EXCEPT
                !.cancel = NoWork,
                !.last = IF k = 0 THEN "nomatch" ELSE "match",
                !.cancelled = IF k = 0 THEN @ ELSE @ \cup {cx.requests[k]}]
    /\ UNCHANGED <<core, ss, tcx, ox, ax, rx, dx, sx, gx, nx, lx, tx, kx>>

\* The handler of request w has returned: unless the request is marked
\* send_no_response its response is stamped and sent; the request leaves the
\* in-flight list if it is still on it.
CancelSend(w) ==
    /\ cx.state = "run"
    /\ w \in 1..Len(cx.work)
    /\ cx.work[w].state = "running"
    /\ LET on == {k \in 1..Len(cx.requests) : cx.requests[k] = w}
       IN  cx' = [cx EXCEPT
                !.work[w].state = IF cx.work[w].send_no_response THEN "dropped" ELSE "sent",
                !.work[w].added_in_request_list = FALSE,
                !.requests = IF cx.work[w].added_in_request_list /\ on # {}
                             THEN list_del(@, Min(on)) ELSE @,
                !.sequence_number = IF cx.work[w].send_no_response THEN @ ELSE seq_inc(@)]
    /\ UNCHANGED <<core, ss, tcx, ox, ax, rx, dx, sx, gx, nx, lx, tx, kx>>

NextCancel ==
    \/ \E mid \in Mids : CancelReceive(mid)
    \/ \E mid \in Mids : CancelArrives(mid)
    \/ NtCancel
    \/ \E w \in 1..MaxWorks : CancelSend(w)

SpecCancel == InitCancel /\ [][NextCancel]_vars

(***************************************************************************)
(* READ_ANDX under byte-range locks (smb1pdu.c, vfs.c).  The inode's posix *)
(* lock list holds locks [fl_start, fl_end] of type F_RDLCK or F_WRLCK,    *)
(* each taken through one open file (fl_file).                             *)
(***************************************************************************)
Filps == 1..NFilps
Offsets == 0..MaxOff

PosixLocks ==
    [fl_start : Offsets, fl_end : Offsets, fl_type : {"F_RDLCK", "F_WRLCK"},
     fl_file : Filps]

\* check_lock_range: 1 when a lock that overlaps [start, end] forbids the
\* access (a shared lock forbids a write, an exclusive lock of another open
\* forbids both), else 0.
check_lock_range(flc_posix, filp, start, end, type) ==
    IF \E k \in 1..Len(flc_posix) :
          /\ flc_posix[k].fl_end >= start
          /\ end >= flc_posix[k].fl_start
          /\ \/ flc_posix[k].fl_type = "F_RDLCK" /\ type = "WRITE"
             \/ flc_posix[k].fl_type = "F_WRLCK" /\ flc_posix[k].fl_file # filp
    THEN 1 ELSE 0

\* smb_vfs_read for a Fid that is (fp # 0) or is not bound: the byte count,
\* or rc < 0.  A stream is read out of its xattr value (of v_len bytes) and
\* never gets to check_lock_range.  fault is the host call that fails:
\* alloc_data_mem, smb_find_cont_xattr or vfs_read.
smb_vfs_read(r, is_stream, v_len, fault) ==
    IF r.fp = NoFile THEN Err("ENOENT")
    ELSE IF r.isdir THEN Err("EISDIR")
    ELSE IF r.count = 0 THEN 0
    ELSE IF fault = "alloc_data_mem" THEN Err("ENOMEM")
    ELSE IF is_stream
    THEN IF fault = "xattr" THEN Err("ENOENT")
         ELSE IF v_len > r.count THEN r.count ELSE v_len
    ELSE IF check_lock_range(r.flc_posix, r.fp, r.pos, r.pos + r.count - 1, "READ") # 0
    THEN Err("EAGAIN")
    ELSE IF fault = "vfs_read" THEN Err("EIO")
    ELSE r.count

\* smb_vfs_write: the return value, *written, whether the level II oplocks
\* were broken, and what was done to the data: for a file the bytes written,
\* for a stream the size of the value stored and the bytes copied into it at
\* pos (overflow: the copy runs past the end of the value's buffer).
smb_vfs_write(r, is_stream, oplocks_enable, v_len, fault) ==
    LET no == [err |-> 0, written |-> 0, broke |-> FALSE, modified |-> FALSE,
               stored |-> 0, copied |-> 0, overflow |-> FALSE]
        size == IF r.pos + r.count > XattrSizeMax THEN XattrSizeMax ELSE r.pos + r.count
        count == IF r.pos + r.count > XattrSizeMax
                 THEN (r.pos + r.count) - XattrSizeMax ELSE r.count
        buflen == IF v_len < size THEN size ELSE v_len
    IN  IF r.fp = NoFile THEN [no EXCEPT !.err = Err("ENOENT")]
        ELSE IF is_stream
        THEN IF fault = "xattr" THEN [no EXCEPT !.err = Err("ENOENT")]
             ELSE IF v_len < size /\ fault = "alloc_data_mem"
             THEN [no EXCEPT !.err = Err("ENOMEM")]
             ELSE IF fault = "store"
             THEN [no EXCEPT !.err = Err("EIO"), !.copied = count,
                             !.overflow = (r.pos + count > buflen)]
             ELSE [no EXCEPT !.written = count, !.modified = TRUE,
                             !.stored = size, !.copied = count,
                             !.overflow = (r.pos + count > buflen)]
        ELSE IF check_lock_range(r.flc_posix, r.fp, r.pos, r.pos + r.count - 1, "WRITE") # 0
        THEN [no EXCEPT !.err = Err("EAGAIN")]
        ELSE IF fault = "vfs_write"
        THEN [no EXCEPT !.err = Err("EIO"), !.broke = oplocks_enable]
        ELSE [no EXCEPT !.written = r.count, !.modified = TRUE,
                        !.broke = oplocks_enable]

\* smb_vfs_truncate of an open file to size bytes: the return value, whether
\* the level II oplocks were broken, whether the file was truncated, and
\* whether the reference get_id_from_fidtable took was left behind.
smb_vfs_truncate(r, size, oplocks_enable, i_size, fault) ==
    LET no == [err |-> 0, broke |-> FALSE, modified |-> FALSE, leaked |-> FALSE]
        locked == IF size < i_size
                  THEN check_lock_range(r.flc_posix, r.fp, size, i_size - 1, "WRITE")
                  ELSE check_lock_range(r.flc_posix, r.fp, i_size, size - 1, "WRITE")
    IN  IF r.fp = NoFile THEN [no EXCEPT !.err = Err("ENOENT")]
        ELSE IF ~oplocks_enable /\ locked # 0
        THEN [no EXCEPT !.err = Err("EAGAIN"), !.leaked = TRUE]
        ELSE IF fault = "vfs_truncate"
        THEN [no EXCEPT !.err = Err("EIO"), !.broke = oplocks_enable]
        ELSE [no EXCEPT !.modified = TRUE, !.broke = oplocks_enable]

\* Lock lists the host keeps: well-formed ranges that do not overlap.
LockLists ==
    {l \in UNION {[1..n -> PosixLocks] : n \in 0..MaxLocks} :
        /\ \A k \in 1..Len(l) : l[k].fl_start <= l[k].fl_end
        /\ \A j, k \in 1..Len(l) :
              j < k => (l[j].fl_end < l[k].fl_start \/ l[k].fl_end < l[j].fl_start)}

InitRead ==
    /\ CoreInit
    /\ \E l \in LockLists, f \in Filps \cup {NoFile}, isdir \in BOOLEAN,
          pos \in Offsets, count \in 0..MaxCount :
            rx = [state |-> "req", flc_posix |-> l, fp |-> f,
                  isdir |-> isdir /\ l = <<>> /\ f # NoFile,
                  pos |-> pos, count |-> count, fault |-> "none",
                  nbytes |-> 0, status |-> "none",
                  op |-> "none", is_stream |-> FALSE, oplocks_enable |-> FALSE,
                  v_len |-> 0, i_size |-> 0,
                  io |-> [err |-> 0, written |-> 0, broke |-> FALSE,
                          modified |-> FALSE, stored |-> 0, copied |-> 0,
                          overflow |-> FALSE, leaked |-> FALSE]]
    /\ ss = Idle
    /\ tcx = Idle
    /\ ox = Idle
    /\ ax = Idle
    /\ cx = Idle
    /\ dx = Idle
    /\ sx = Idle
    /\ gx = Idle
    /\ nx = Idle
    /\ lx = Idle
    /\ tx = Idle
    /\ kx = Idle

\* smb_read_andx on a disk share: every error of smb_vfs_read is answered
\* with the one status of the handler's error exit.
ReadX(is_stream, v_len, fault) ==
    /\ rx.state = "req"
    /\ LET nbytes == smb_vfs_read(rx, is_stream, v_len, fault)
       IN  rx' = [rx EXCEPT
                !.state = "done", !.op = "READ", !.fault = fault, !.nbytes = nbytes,
                !.is_stream = is_stream, !.v_len = v_len,
                !.io.err = IF nbytes < 0 THEN nbytes ELSE 0,
                !.status = IF nbytes < 0 THEN "INVALID_HANDLE" ELSE "OK"]
    /\ UNCHANGED <<core, ss, tcx, ox, ax, cx, dx, sx, gx, nx, lx, tx, kx>>

\* A write of count bytes at pos through smb_vfs_write.
WriteX(is_stream, oplocks_enable, v_len, fault) ==
    /\ rx.state = "req"
    /\ ~rx.isdir
    /\ LET w == smb_vfs_write(rx, is_stream, oplocks_enable, v_len, fault)
       IN  rx' = [rx EXCEPT
                !.state = "done", !.op = "WRITE", !.fault = fault,
                !.is_stream = is_stream, !.oplocks_enable = oplocks_enable,
                !.v_len = v_len,
                !.io = w @@ [leaked |-> FALSE]]
    /\ UNCHANGED <<core, ss, tcx, ox, ax, cx, dx, sx, gx, nx, lx, tx, kx>>

\* A truncating write: smb_vfs_truncate of the open file to the size pos.
TruncateX(oplocks_enable, i_size, fault) ==
    /\ rx.state = "req"
    /\ ~rx.isdir
    /\ rx.count = 0
    /\ LET t == smb_vfs_truncate(rx, rx.pos, oplocks_enable, i_size, fault)
       IN  rx' = [rx EXCEPT
                !.state = "done", !.op = "TRUNCATE", !.fault = fault,
                !.oplocks_enable = oplocks_enable, !.i_size = i_size,
                !.io.err = t.err, !.io.broke = t.broke,
                !.io.modified = t.modified, !.io.leaked = t.leaked]
    /\ UNCHANGED <<core, ss, tcx, ox, ax, cx, dx, sx, gx, nx, lx, tx, kx>>

NextRead ==
    \/ \E is_stream \in BOOLEAN, v_len \in 0..XattrSizeMax,
          fault \in {"none", "alloc_data_mem", "xattr", "vfs_read"} :
            ReadX(is_stream, IF is_stream THEN v_len ELSE 0, fault)
    \/ \E is_stream \in BOOLEAN, oplocks_enable \in BOOLEAN, v_len \in 0..XattrSizeMax,
          fault \in {"none", "alloc_data_mem", "xattr", "store", "vfs_write"} :
            WriteX(is_stream, oplocks_enable, IF is_stream THEN v_len ELSE 0, fault)
    \/ \E oplocks_enable \in BOOLEAN, i_size \in Offsets,
          fault \in {"none", "vfs_truncate"} :
            TruncateX(oplocks_enable, i_size, fault)

SpecRead == InitRead /\ [][NextRead]_vars

(***************************************************************************)
(* TRANS2 FIND_FIRST and FIND_NEXT: the directory enumeration.             *)
(***************************************************************************)

\* strlen(srch_ptr) = de->namelen and strncasecmp(de->name, srch_ptr, namelen)
\* = 0: the names are the same but for the case of their letters.
strncasecmp(name, srch_ptr) ==
    LET toupper(c) == CASE c = "b" -> "B" [] c = "t" -> "T" [] OTHER -> c
    IN  /\ Len(srch_ptr) = Len(name)
        /\ \A i \in 1..Len(name) : toupper(name[i]) = toupper(srch_ptr[i])

\* smb_get_dir_name on the last component of the path: a name with a '*' is
\* cut at its last '*' and what stands before it stays in the directory path,
\* with no pattern; a name without one is the pattern and leaves the path.
smb_get_dir_name(src) ==
    LET stars == {i \in 1..Len(src) : src[i] = "*"}
        \* strrchr(name, '*'), 0 for NULL
        wild_card_pos == IF stars = {} THEN 0
                         ELSE CHOOSE i \in stars : \A j \in stars : j <= i
    IN  IF wild_card_pos # 0
        THEN [err |-> 0, name |-> SubSeq(src, 1, wild_card_pos - 1), srch_ptr |-> <<>>]
        ELSE IF Len(src) = 0
        THEN [err |-> Err("EINVAL"), name |-> <<>>, srch_ptr |-> <<>>]
        ELSE [err |-> 0, name |-> <<>>, srch_ptr |-> src]

\* The length of a struct smb_dirent in the page, for a name of namelen bytes:
\* ALIGN(sizeof(struct smb_dirent) + namelen, 8).
dirent_reclen(namelen) == ((sizeof_smb_dirent + namelen + 7) \div 8) * 8

\* The bytes the first n records of a page take.
RECURSIVE page_used(_, _)
page_used(page, n) ==
    IF n = 0 THEN 0 ELSE page_used(page, n - 1) + dirent_reclen(Len(page[n]))

\* smb_vfs_readdir with smb_filldir: the entries from the file position on that
\* fit in one page; the entry that finds the page full stays for the next call.
smb_vfs_readdir(dir, f_pos) ==
    LET rest == SubSeq(dir, f_pos + 1, Len(dir))
        fits == {n \in 0..Len(rest) : page_used(rest, n) <= PageSize}
    IN  SubSeq(rest, 1, CHOOSE n \in fits : \A m \in fits : m <= n)

\* convname_updatenextoffset: the length of the entry in the response, for the
\* level FILE_DIRECTORY_INFO and a name converted to UTF-16.
next_entry_offset(namestr) ==
    ((sizeof_FILE_DIRECTORY_INFO - 1 + 2 * Len(namestr) + 3) \div 4) * 4

\* insert_id_in_fidtable for the directory, and the get_id_from_fidtable that
\* follows smb_dentry_open in find_first: a File with no master file, held once.
NewDirFp ==
    [bound |-> TRUE, f_mfp |-> NoMfp, f_count |-> 1, dirent |-> TRUE,
     dirent_offset |-> 0, used |-> 0, page |-> <<>>, f_pos |-> 0]

\* The loop of find_first and find_next.  d is dir_fp, buf is out_buf_len,
\* acc what the response holds so far, with the reclen of the last record.
RECURSIVE readdir_loop(_, _, _, _, _)
readdir_loop(d, dir, srch_ptr, buf, acc) ==
    LET refill == d.dirent_offset >= d.used
        pg == IF refill THEN smb_vfs_readdir(dir, d.f_pos) ELSE d.page
        d1 == IF refill
              THEN [d EXCEPT !.dirent_offset = 0, !.page = pg,
                             !.used = page_used(pg, Len(pg)),
                             !.f_pos = @ + Len(pg)]
              ELSE d
    IN  IF d1.used = 0
        THEN [d |-> [d1 EXCEPT !.dirent = FALSE], buf |-> buf, acc |-> acc]
        ELSE
        LET k == CHOOSE i \in 1..Len(pg) : page_used(pg, i - 1) = d1.dirent_offset
            de == pg[k]
            reclen == dirent_reclen(Len(de))
            d2 == [d1 EXCEPT !.dirent_offset = @ + reclen]
            skip == srch_ptr # <<>> /\ ~strncasecmp(de, srch_ptr)
            fit == next_entry_offset(de) <= buf
            buf2 == IF skip THEN buf
                    ELSE IF fit THEN buf - next_entry_offset(de) ELSE -1
            acc2 == IF skip \/ ~fit
                    THEN [acc EXCEPT !.reclen = reclen]
                    ELSE [names |-> Append(acc.names, de),
                          last_entry_offset |-> acc.data_count,
                          data_count |-> acc.data_count + next_entry_offset(de),
                          reclen |-> reclen]
        IN  IF (srch_ptr # <<>> /\ ~skip) \/ buf2 < 0
            THEN [d |-> d2, buf |-> buf2, acc |-> acc2]
            ELSE readdir_loop(d2, dir, srch_ptr, buf2, acc2)

\* close_id on the search's File: with no master file its f_mfp->m_lock is a
\* NULL dereference; with one, the reference find_first and find_next took and
\* never put keeps delete_id_from_fidtable waiting until BUG().
close_dir(d) ==
    IF d.f_mfp = NoMfp THEN "oops" ELSE IF d.f_count > 0 THEN "BUG" ELSE "none"

\* One response, as the client reads it.
Answer(op, status, ended, last, names) ==
    [op |-> op, status |-> status, EndofSearch |-> ended, LastNameOffset |-> last,
     names |-> names]

\* The handler has filled in the response r and returns, after close_id on
\* the search's File when close is set; a handler that dies in close_id sends
\* nothing.
FindReturn(r, d, close) ==
    IF close /\ close_dir(d) # "none"
    THEN dx' = [dx EXCEPT !.state = "dead", !.asked = @ + 1, !.rsp = r,
                   !.dir_fp = [d EXCEPT !.f_count = @ + 1],
                   !.panic = close_dir(d)]
    ELSE dx' = [dx EXCEPT !.state = "open", !.asked = @ + 1, !.rsp = r,
                   !.dir_fp = IF close THEN [d EXCEPT !.bound = FALSE] ELSE d,
                   !.log = Append(@, r)]

InitFind ==
    /\ CoreInit
    /\ LET \* the names a directory of the share may hold
           Names == {<<"A", ".", "T">>, <<"b", ".", "t">>, <<"C", ".", "D">>}
           \* the last component of the path: wildcards and a plain name
           Patterns == {<<"*">>, <<"*", ".", "T">>, <<"A", "*">>, <<"B", ".", "T">>}
           \* the directories: every arrangement of distinct names
           Dirs == {d \in UNION {[1..n -> Names] : n \in 0..MaxEntries} :
                       \A i, j \in 1..Len(d) : d[i] = d[j] => i = j}
       IN  dx \in [state : {"req"}, dir : Dirs, pattern : Patterns,
                   dir_fp : {[NewDirFp EXCEPT !.bound = FALSE, !.f_count = 0]},
                   rsp : {Answer("none", "none", FALSE, 0, <<>>)},
                   log : {<<>>}, asked : {0}, panic : {"none"}]
    /\ ss = Idle
    /\ tcx = Idle
    /\ ox = Idle
    /\ ax = Idle
    /\ cx = Idle
    /\ rx = Idle
    /\ sx = Idle
    /\ gx = Idle
    /\ nx = Idle
    /\ lx = Idle
    /\ tx = Idle
    /\ kx = Idle

\* The tail find_first and find_next share: the record that did not fit is
\* read again and the search goes on, or the search is over and the File is
\* closed before the response is sent.
FindAnswer(op, l) ==
    LET d == IF l.buf < 0 THEN [l.d EXCEPT !.dirent_offset = @ - l.acc.reclen]
             ELSE l.d
    IN  IF l.buf < 0
        THEN FindReturn(Answer(op, "OK", FALSE, l.acc.last_entry_offset, l.acc.names),
                     d, FALSE)
        ELSE FindReturn(Answer(op, "OK", TRUE, 0, l.acc.names), d, TRUE)

\* find_first; out_buf_len is the room the request's SearchCount leaves for
\* entries, negative when it leaves none.
find_first(out_buf_len) ==
    /\ dx.state = "req"
    /\ LET g == smb_get_dir_name(dx.pattern)
           l == readdir_loop(NewDirFp, dx.dir, g.srch_ptr, out_buf_len,
                             [names |-> <<>>, last_entry_offset |-> 0,
                              data_count |-> 0, reclen |-> 0])
           d == IF l.buf < 0 THEN [l.d EXCEPT !.dirent_offset = @ - l.acc.reclen]
                ELSE l.d
       IN  IF g.err # 0 \/ g.name # <<>>
           THEN \* no such directory: smb_kern_path fails, nothing was opened
                FindReturn(Answer("FIND_FIRST",
                               IF g.err # 0 THEN "INVALID_PARAMETER"
                               ELSE "UNEXPECTED_IO_ERROR", FALSE, 0, <<>>),
                        dx.dir_fp, FALSE)
           ELSE IF g.srch_ptr # <<>> /\ l.acc.data_count = 0
           THEN \* err_out: the File is closed only while it has its page
                FindReturn(Answer("FIND_FIRST", "NO_SUCH_FILE", FALSE, 0, <<>>),
                        d, d.dirent)
           ELSE FindAnswer("FIND_FIRST", l)
    /\ UNCHANGED <<core, ss, tcx, ox, ax, cx, rx, sx, gx, nx, lx, tx, kx>>

\* find_next, on the search id find_first returned (known) or on another one;
\* out_buf_len is the room the request's SearchCount leaves for entries.
find_next(known, out_buf_len) ==
    /\ dx.state = "open"
    /\ dx.asked < MaxFinds
    /\ IF known /\ dx.dir_fp.bound
       THEN FindAnswer("FIND_NEXT",
                readdir_loop([dx.dir_fp EXCEPT !.f_count = @ + 1], dx.dir, <<>>,
                             out_buf_len,
                             [names |-> <<>>, last_entry_offset |-> 0,
                              data_count |-> 0, reclen |-> 0]))
       ELSE FindReturn(Answer("FIND_NEXT", "UNEXPECTED_IO_ERROR", FALSE, 0, <<>>),
                    dx.dir_fp, FALSE)
    /\ UNCHANGED <<core, ss, tcx, ox, ax, cx, rx, sx, gx, nx, lx, tx, kx>>

NextFind ==
    \/ \E out_buf_len \in {-1} \cup {n * 80 : n \in 0..MaxSearchCount} :
          find_first(out_buf_len)
    \/ \E known \in BOOLEAN,
          out_buf_len \in {-1} \cup {n * 80 : n \in 0..MaxSearchCount} :
          find_next(known, out_buf_len)

SpecFind == InitFind /\ [][NextFind]_vars

(***************************************************************************)
(* The security descriptor codec: POSIX mode to DACL and back.  A mode is  *)
(* the set of its permission bits, so & is \cap and | is \cup.             *)
(***************************************************************************)

\* The masks of <linux/stat.h> the codec uses (S_I.RUGO is S_IRUGO), each the
\* set of its bits: 0400 is 256, 0200 is 128, ..., 0001 is 1.
S_I ==
    [RUGO |-> {256, 32, 4}, WUGO |-> {128, 16, 2}, XUGO |-> {64, 8, 1},
     RWXU |-> {256, 128, 64}, RWXG |-> {32, 16, 8}, RWXO |-> {4, 2, 1},
     RWXUGO |-> {256, 128, 64, 32, 16, 8, 4, 2, 1}]

\* mode_to_access_flags: the rights an ACE grants for the bits of mode that
\* lie in bits_to_use (S_I.RWXU, S_I.RWXG or S_I.RWXO).
mode_to_access_flags(mode, bits_to_use) ==
    LET common == {"FILE_READ_ATTRIBUTES", "DELETE", "READ_CONTROL", "WRITE_DAC",
                   "WRITE_OWNER", "SYNCHRONIZE"}
        SET_FILE_READ_RIGHTS ==
            common \cup {"FILE_READ_DATA", "FILE_READ_EA", "FILE_WRITE_EA",
                         "FILE_WRITE_ATTRIBUTES"}
        SET_FILE_WRITE_RIGHTS ==
            common \cup {"FILE_WRITE_DATA", "FILE_APPEND_DATA", "FILE_WRITE_EA",
                         "FILE_DELETE_CHILD", "FILE_WRITE_ATTRIBUTES"}
        SET_FILE_EXEC_RIGHTS ==
            common \cup {"FILE_READ_EA", "FILE_WRITE_EA", "FILE_EXECUTE",
                         "FILE_WRITE_ATTRIBUTES"}
        m == mode \cap bits_to_use
    IN  (IF m \cap S_I.RUGO # {} THEN SET_FILE_READ_RIGHTS ELSE {})
        \cup (IF m \cap S_I.WUGO # {} THEN SET_FILE_WRITE_RIGHTS ELSE {})
        \cup (IF m \cap S_I.XUGO # {} THEN SET_FILE_EXEC_RIGHTS ELSE {})

\* set_chmod_dacl with fill_ace_for_sid: three ACCESS_ALLOWED ACEs, for the
\* owner, the group and everyone, none with less than SET_MINIMUM_RIGHTS.
set_chmod_dacl(pownersid, pgrpsid, nmode) ==
    LET SET_MINIMUM_RIGHTS == {"FILE_READ_EA", "FILE_READ_ATTRIBUTES",
                               "READ_CONTROL", "SYNCHRONIZE"}
        fill_ace_for_sid(psid, bits) ==
            LET access_req == mode_to_access_flags(nmode, bits)
            IN  [type |-> "ACCESS_ALLOWED", sid |-> psid,
                 access_req |-> IF access_req = {} THEN SET_MINIMUM_RIGHTS
                                ELSE access_req]
    IN  <<fill_ace_for_sid(pownersid, S_I.RWXU),
          fill_ace_for_sid(pgrpsid, S_I.RWXG),
          fill_ace_for_sid("sid_everyone", S_I.RWXO)>>

\* access_flags_to_mode: one ACE's rights applied to the mode through the
\* mask of the class its SID stands for; a denying ACE narrows the mask.
access_flags_to_mode(flags, type, pmode, pbits_to_set) ==
    LET FILE_WRITE_RIGHTS == {"FILE_WRITE_DATA", "FILE_APPEND_DATA", "FILE_WRITE_EA",
                              "FILE_WRITE_ATTRIBUTES"}
        FILE_READ_RIGHTS == {"FILE_READ_DATA", "FILE_READ_EA", "FILE_READ_ATTRIBUTES"}
        FILE_EXEC_RIGHTS == {"FILE_EXECUTE"}
        w == "GENERIC_WRITE" \in flags \/ FILE_WRITE_RIGHTS \subseteq flags
        r == "GENERIC_READ" \in flags \/ FILE_READ_RIGHTS \subseteq flags
        x == "GENERIC_EXECUTE" \in flags \/ FILE_EXEC_RIGHTS \subseteq flags
        named == (IF w THEN S_I.WUGO ELSE {}) \cup (IF r THEN S_I.RUGO ELSE {})
                    \cup (IF x THEN S_I.XUGO ELSE {})
    IN  IF type = "ACCESS_DENIED"
        THEN [mode |-> pmode,
              bits |-> IF "GENERIC_ALL" \in flags THEN {} ELSE pbits_to_set \ named]
        ELSE IF type # "ACCESS_ALLOWED"
        THEN [mode |-> pmode, bits |-> pbits_to_set]
        ELSE IF "GENERIC_ALL" \in flags
        THEN [mode |-> pmode \cup pbits_to_set, bits |-> pbits_to_set]
        ELSE [mode |-> pmode \cup (named \cap pbits_to_set), bits |-> pbits_to_set]

\* parse_dacl from its reset of the rwx bits on: the ACEs in wire order, each
\* applied for every class whose SID it carries.  st holds cf_mode and the
\* three masks.
RECURSIVE parse_dacl(_, _, _, _)
parse_dacl(aces, pownersid, pgrpsid, st) ==
    IF aces = <<>> THEN st
    ELSE
    LET ace == Head(aces)
        u == IF ace.sid = pownersid
             THEN access_flags_to_mode(ace.access_req, ace.type, st.cf_mode, st.user_mask)
             ELSE [mode |-> st.cf_mode, bits |-> st.user_mask]
        g == IF ace.sid = pgrpsid
             THEN access_flags_to_mode(ace.access_req, ace.type, u.mode, st.group_mask)
             ELSE [mode |-> u.mode, bits |-> st.group_mask]
        o == IF ace.sid = "sid_everyone"
             THEN access_flags_to_mode(ace.access_req, ace.type, g.mode, st.other_mask)
             ELSE [mode |-> g.mode, bits |-> st.other_mask]
        a == IF ace.sid = "sid_authusers"
             THEN access_flags_to_mode(ace.access_req, ace.type, o.mode, o.bits)
             ELSE o
    IN  parse_dacl(Tail(aces), pownersid, pgrpsid,
                   [cf_mode |-> a.mode, user_mask |-> u.bits, group_mask |-> g.bits,
                    other_mask |-> a.bits])

\* An inode of any mode, with the SIDs its owner and its group map to.
InitDacl ==
    /\ CoreInit
    /\ sx \in [state : {"inode"}, i_mode : SUBSET S_I.RWXUGO, pownersid : {"S-1-22-1-0"},
               pgrpsid : {"S-1-22-2-0"}, dacl : {<<>>}, cf_mode : {{}}]
    /\ ss = Idle
    /\ tcx = Idle
    /\ ox = Idle
    /\ ax = Idle
    /\ cx = Idle
    /\ rx = Idle
    /\ dx = Idle
    /\ gx = Idle
    /\ nx = Idle
    /\ lx = Idle
    /\ tx = Idle
    /\ kx = Idle

\* build_sec_desc for DACL_SECINFO: the DACL of the inode's mode.
build_sec_desc ==
    /\ sx.state = "inode"
    /\ sx' = [sx EXCEPT !.state = "built",
                        !.dacl = set_chmod_dacl(sx.pownersid, sx.pgrpsid, sx.i_mode)]
    /\ UNCHANGED <<core, ss, tcx, ox, ax, cx, rx, dx, gx, nx, lx, tx, kx>>

\* parse_sec_desc on the descriptor just built: the mode parse_dacl reads.
parse_sec_desc ==
    /\ sx.state = "built"
    /\ sx' = [sx EXCEPT !.state = "parsed",
                        !.cf_mode = parse_dacl(sx.dacl, sx.pownersid, sx.pgrpsid,
                                       [cf_mode |-> {}, user_mask |-> S_I.RWXU,
                                        group_mask |-> S_I.RWXG,
                                        other_mask |-> S_I.RWXUGO]).cf_mode]
    /\ UNCHANGED <<core, ss, tcx, ox, ax, cx, rx, dx, gx, nx, lx, tx, kx>>

NextDacl == build_sec_desc \/ parse_sec_desc

SpecDacl == InitDacl /\ [][NextDacl]_vars

(***************************************************************************)
(* Table growth beside a table scan (fh.c).  grow_fidtable only ever swaps *)
(* in a bigger table, so a table is told from the others by its max_fids.  *)
(* A slot holds the tree id of the File bound to it here, NoFile for NULL. *)
(***************************************************************************)

\* The session's first table; nobody scans.
InitGrow ==
    /\ CoreInit
    /\ gx = [state |-> "run", ftab |-> init_fidtable, freed |-> {},
             scan |-> [pc |-> "idle", ftab |-> 0, id |-> 0, tree_id |-> 0]]
    /\ ss = Idle
    /\ tcx = Idle
    /\ ox = Idle
    /\ ax = Idle
    /\ cx = Idle
    /\ rx = Idle
    /\ dx = Idle
    /\ sx = Idle
    /\ nx = Idle
    /\ lx = Idle
    /\ tx = Idle
    /\ kx = Idle

\* cifsd_get_unused_id finds the table full and grow_fidtable swaps in the
\* bigger one: the old table is freed inside the critical section.
GrowOpen ==
    /\ LET i == cifsd_find_next_zero_bit(gx.ftab.cifsd_bitmap, gx.ftab.max_fids,
                                         gx.ftab.start_pos)
           num == grow_num(i)
       IN  /\ i > gx.ftab.max_fids - 1
           /\ num < BitmapSize + 1
           /\ num > i
           /\ gx' = [gx EXCEPT
                        !.ftab = grow_fidtable(gx.ftab, num),
                        !.freed = IF num >= gx.ftab.max_fids
                                  THEN @ \cup {gx.ftab.max_fids} ELSE @]
    /\ UNCHANGED <<core, ss, tcx, ox, ax, cx, rx, dx, sx, nx, lx, tx, kx>>

\* cifsd_get_unused_id hands out an id and insert_id_in_fidtable binds a File
\* of the tree connection to it.
BindOpen(tree_id) ==
    /\ LET i == cifsd_find_next_zero_bit(gx.ftab.cifsd_bitmap, gx.ftab.max_fids,
                                         gx.ftab.start_pos)
       IN  /\ i <= gx.ftab.max_fids - 1
           /\ gx.ftab.fileid[i] = NoFile
           /\ gx' = [gx EXCEPT
                        !.ftab = [cifsd_get_unused_id(gx.ftab, i) EXCEPT
                                     !.fileid[i] = tree_id]]
    /\ UNCHANGED <<core, ss, tcx, ox, ax, cx, rx, dx, sx, nx, lx, tx, kx>>

\* close_opens_from_fibtable's head: the table pointer is read under the lock
\* and the lock is dropped before the loop.
ScanBegin(tree_id) ==
    /\ gx.scan.pc = "idle"
    /\ gx' = [gx EXCEPT !.scan = [pc |-> "loop", ftab |-> gx.ftab.max_fids,
                                  id |-> 0, tree_id |-> tree_id]]
    /\ UNCHANGED <<core, ss, tcx, ox, ax, cx, rx, dx, sx, nx, lx, tx, kx>>

\* One pass of close_opens_from_fibtable's loop, without the lock: max_fids
\* and the slot are read through the pointer taken at the head, and close_id
\* unbinds a File of the tree from the session's table.  A freed table reads
\* as anything: read is what the slot seems to hold, a NULL, a File of the
\* tree, or a pointer that faults.
ScanSlot(read) ==
    /\ gx.scan.pc = "loop"
    /\ LET i == gx.scan.id
           stale == gx.scan.ftab \in gx.freed
           hit == IF stale THEN read = "file"
                  ELSE /\ gx.ftab.fileid[i] # NoFile
                       /\ gx.ftab.fileid[i] = gx.scan.tree_id
           next == IF i + 1 < gx.scan.ftab
                   THEN [gx.scan EXCEPT !.id = i + 1]
                   ELSE [gx.scan EXCEPT !.pc = "idle"]
       IN  /\ ~stale => read = "null"
           /\ IF stale /\ read = "fault"
              THEN gx' = [gx EXCEPT !.state = "oops", !.scan.pc = "dead"]
              ELSE IF hit /\ i >= CIFSD_START_FID /\ i <= gx.ftab.max_fids - 1
                          /\ gx.ftab.fileid[i] # NoFile
              THEN gx' = [gx EXCEPT
                             !.ftab = cifsd_close_id([gx.ftab EXCEPT !.fileid[i] = NoFile], i),
                             !.scan = next]
              ELSE gx' = [gx EXCEPT !.scan = next]
    /\ UNCHANGED <<core, ss, tcx, ox, ax, cx, rx, dx, sx, nx, lx, tx, kx>>

NextGrow ==
    \/ GrowOpen
    \/ \E tree_id \in Trees : BindOpen(tree_id)
    \/ \E tree_id \in Trees : ScanBegin(tree_id)
    \/ \E read \in {"null", "file", "fault"} : ScanSlot(read)

SpecGrow == InitGrow /\ [][NextGrow]_vars

(***************************************************************************)
(* NT_CREATE_ANDX on a tree connection (smb1pdu.c).  The request carries   *)
(* a CreateDisposition and a DesiredAccess, here the set of the generic    *)
(* rights asked for.                                                       *)
(***************************************************************************)

\* file_create_dispostion_flags: the open(2) flags, or rc < 0.
file_create_dispostion_flags(dispostion, file_present) ==
    LET flags(t, c) == [rc |-> 0, O_TRUNC |-> t, O_CREAT |-> c]
        fail(e) == [rc |-> Err(e), O_TRUNC |-> FALSE, O_CREAT |-> FALSE]
    IN  CASE dispostion = "FILE_SUPERSEDE" -> flags(file_present, ~file_present)
          [] dispostion = "FILE_OPEN" ->
                IF ~file_present THEN fail("ENOENT") ELSE flags(FALSE, FALSE)
          [] dispostion = "FILE_CREATE" ->
                IF file_present THEN fail("EEXIST") ELSE flags(FALSE, TRUE)
          [] dispostion = "FILE_OPEN_IF" -> flags(FALSE, ~file_present)
          [] dispostion = "FILE_OVERWRITE" ->
                IF ~file_present THEN fail("ENOENT") ELSE flags(TRUE, FALSE)
          [] dispostion = "FILE_OVERWRITE_IF" -> flags(file_present, ~file_present)
          [] OTHER -> fail("EINVAL")

\* An NT_CREATE_ANDX request on a tree connection that is or is not writeable,
\* for a name that is or is not there.
InitCreate ==
    /\ CoreInit
    /\ \E writeable \in BOOLEAN, present \in BOOLEAN,
          disp \in {"FILE_SUPERSEDE", "FILE_OPEN", "FILE_CREATE", "FILE_OPEN_IF",
                    "FILE_OVERWRITE", "FILE_OVERWRITE_IF"},
          access \in SUBSET {"GENERIC_READ", "GENERIC_WRITE"} :
            nx = [state |-> "req", writeable |-> writeable, file_present |-> present,
                  CreateDisposition |-> disp, DesiredAccess |-> access,
                  created |-> FALSE, truncated |-> FALSE, opened |-> "none",
                  Fid |-> 0, status |-> "none"]
    /\ ss = Idle
    /\ tcx = Idle
    /\ ox = Idle
    /\ ax = Idle
    /\ cx = Idle
    /\ rx = Idle
    /\ dx = Idle
    /\ sx = Idle
    /\ gx = Idle
    /\ lx = Idle
    /\ tx = Idle
    /\ kx = Idle

\* smb_nt_create_andx with smb_dentry_open.  fault is the host call that
\* fails: smb_vfs_create or dentry_open.  opened is the access mode the file
\* was opened with; a handler that returns 0 without filling the response in
\* answers success with no Fid.
NtCreateAndX(fault) ==
    /\ nx.state = "req"
    /\ LET open_flags == file_create_dispostion_flags(nx.CreateDisposition,
                                                      nx.file_present)
           \* convert_generic_access_flags
           write == open_flags.O_TRUNC \/ "GENERIC_WRITE" \in nx.DesiredAccess
           accmode == IF ~write THEN "O_RDONLY"
                      ELSE IF "GENERIC_READ" \in nx.DesiredAccess THEN "O_RDWR"
                      ELSE "O_WRONLY"
           create == ~nx.file_present /\ open_flags.O_CREAT
           fail(st) == [nx EXCEPT !.state = "done", !.status = st]
       IN  IF open_flags.rc < 0
           THEN nx' = fail(IF nx.file_present THEN "OBJECT_NAME_COLLISION"
                           ELSE "OBJECT_NAME_NOT_FOUND")
           ELSE IF ~nx.writeable
           THEN IF ~nx.file_present
                THEN nx' = fail(IF open_flags.O_CREAT THEN "ACCESS_DENIED"
                                ELSE "OBJECT_NAME_NOT_FOUND")
                ELSE nx' = fail("OK")           \* goto free_path with err 0
           ELSE IF create /\ fault = "create"
           THEN nx' = fail("UNEXPECTED_IO_ERROR")
           ELSE IF fault = "dentry_open"
           THEN nx' = [fail("UNEXPECTED_IO_ERROR") EXCEPT
                          !.created = create, !.truncated = open_flags.O_TRUNC]
           ELSE nx' = [nx EXCEPT
                          !.state = "done", !.status = "OK",
                          !.created = create,
                          !.truncated = open_flags.O_TRUNC,
                          !.opened = accmode,
                          !.Fid = CIFSD_START_FID]
    /\ UNCHANGED <<core, ss, tcx, ox, ax, cx, rx, dx, sx, gx, lx, tx, kx>>

NextCreate == \E fault \in {"none", "create", "dentry_open"} : NtCreateAndX(fault)

SpecCreate == InitCreate /\ [][NextCreate]_vars

(***************************************************************************)
(* The spinlocks of the handle functions (fh.c): fidtable_lock of the      *)
(* session's table, f_lock of a File, m_lock of its master file and        *)
(* mfp_hash_lock of the master file hash.  Each worker runs one function   *)
(* on the same File; a function is the sequence of its lock calls.         *)
(***************************************************************************)

\* The spin_lock and spin_unlock calls of a function, in program order, on
\* the path where the File is found and nobody else holds it.
LockPath(fn) ==
    LET lock(l) == [op |-> "spin_lock", lock |-> l]
        unlock(l) == [op |-> "spin_unlock", lock |-> l]
        get_id == <<lock("fidtable_lock"), lock("f_lock"), unlock("f_lock"),
                    unlock("fidtable_lock")>>
        delete_id == <<lock("fidtable_lock"), lock("f_lock"), unlock("f_lock"),
                       unlock("fidtable_lock")>>
        hash == <<lock("mfp_hash_lock"), unlock("mfp_hash_lock")>>
        table == <<lock("fidtable_lock"), unlock("fidtable_lock")>>
    IN  CASE fn = "get_id_from_fidtable" -> get_id
          [] fn = "delete_id_from_fidtable" -> delete_id
          [] fn = "cifsd_get_unused_id" -> table
          [] fn = "mfp_lookup" -> hash
          [] fn = "close_id" ->
                get_id
                \o <<lock("f_lock"), lock("m_lock"), unlock("m_lock"), unlock("f_lock")>>
                \o <<lock("m_lock"), unlock("m_lock")>>
                \o hash                 \* mfp_free: remove_mfp_hash
                \o delete_id
                \o table                \* cifsd_close_id

\* Each worker is about to run one of the functions.
InitLock ==
    /\ CoreInit
    /\ \E fn \in [Workers -> {"get_id_from_fidtable", "delete_id_from_fidtable",
                              "cifsd_get_unused_id", "mfp_lookup", "close_id"}] :
            lx = [state |-> "run", fn |-> fn, at |-> [w \in Workers |-> 1],
                  held |-> [w \in Workers |-> <<>>]]
    /\ ss = Idle
    /\ tcx = Idle
    /\ ox = Idle
    /\ ax = Idle
    /\ cx = Idle
    /\ rx = Idle
    /\ dx = Idle
    /\ sx = Idle
    /\ gx = Idle
    /\ nx = Idle
    /\ tx = Idle
    /\ kx = Idle

\* The worker's next lock call: spin_lock waits while another worker holds
\* the lock, spin_unlock gives it up.  held lists the locks in the order they
\* were taken.
LockStep(w) ==
    /\ lx.at[w] <= Len(LockPath(lx.fn[w]))
    /\ LET e == LockPath(lx.fn[w])[lx.at[w]]
       IN  IF e.op = "spin_lock"
           THEN /\ \A v \in Workers : \A k \in 1..Len(lx.held[v]) :
                        lx.held[v][k] # e.lock
                /\ lx' = [lx EXCEPT !.at[w] = @ + 1,
                                    !.held[w] = Append(@, e.lock)]
           ELSE lx' = [lx EXCEPT !.at[w] = @ + 1,
                                 !.held[w] = SelectSeq(@, LAMBDA l : l # e.lock)]
    /\ UNCHANGED <<core, ss, tcx, ox, ax, cx, rx, dx, sx, gx, nx, tx, kx>>

NextLock == \E w \in Workers : LockStep(w)

SpecLock == InitLock /\ [][NextLock]_vars

(***************************************************************************)
(* Tree ids (export.c, smb1pdu.c).  The counter tid is a global __u16; a   *)
(* share takes its value when the share is added, and a tree connection    *)
(* answers with the tid of its share.                                      *)
(***************************************************************************)

\* The server's globals before the configuration is read: tid = 1 and an
\* empty cifsd_share_list; no session has a tree connection.
InitTid ==
    /\ CoreInit
    /\ tx = [state |-> "run", tid |-> 1, cifsd_share_list |-> <<>>,
             tcon_list |-> <<>>]
    /\ ss = Idle
    /\ tcx = Idle
    /\ ox = Idle
    /\ ax = Idle
    /\ cx = Idle
    /\ rx = Idle
    /\ dx = Idle
    /\ sx = Idle
    /\ gx = Idle
    /\ nx = Idle
    /\ lx = Idle
    /\ kx = Idle

\* __add_share: share->tid = tid++, on a 16-bit counter.
add_share ==
    /\ Len(tx.cifsd_share_list) < MaxShares
    /\ tx' = [tx EXCEPT !.cifsd_share_list = Append(@, [tid |-> tx.tid]),
                        !.tid = (@ + 1) % TidRange]
    /\ UNCHANGED <<core, ss, tcx, ox, ax, cx, rx, dx, sx, gx, nx, lx, kx>>

\* smb_tree_connect_andx of a session for a share it may use: the tree
\* connection is built and the response's Tid is tcon->share->tid.
TidConnect(s, share) ==
    /\ Len(tx.tcon_list) < MaxTcons
    /\ share \in 1..Len(tx.cifsd_share_list)
    /\ tx' = [tx EXCEPT !.tcon_list =
                 Append(@, [sess |-> s, share |-> share,
                            Tid |-> tx.cifsd_share_list[share].tid])]
    /\ UNCHANGED <<core, ss, tcx, ox, ax, cx, rx, dx, sx, gx, nx, lx, kx>>

NextTid ==
    \/ add_share
    \/ \E s \in Users, share \in 1..MaxShares : TidConnect(s, share)

SpecTid == InitTid /\ [][NextTid]_vars

(***************************************************************************)
(* Durable reconnect (fh.c): the stat stored in the durable state against  *)
(* the stat of the file now.  A stat is a function of the names of struct  *)
(* kstat's fields; a time is two fields, tv_sec and tv_nsec.               *)
(***************************************************************************)

\* cifsd_check_stat_info: 0 if mismatch, 1 if no mismatch.
cifsd_check_stat_info(durable_stat, current_stat) ==
    LET ne(f) == durable_stat[f] # current_stat[f]
    IN  IF ne("ino") THEN 0
        ELSE IF ne("dev") THEN 0
        ELSE IF ne("mode") THEN 0
        ELSE IF ne("nlink") THEN 0
        ELSE IF ne("uid") THEN 0
        ELSE IF ne("gid") THEN 0
        ELSE IF ne("rdev") THEN 0
        ELSE IF ne("size") THEN 0
        ELSE IF ne("atime.tv_sec") /\ ne("atime.tv_nsec") THEN 0
        ELSE IF ne("mtime.tv_sec") /\ ne("mtime.tv_nsec") THEN 0
        ELSE IF ne("ctime.tv_sec") /\ ne("ctime.tv_nsec") THEN 0
        ELSE IF ne("blksize") THEN 0
        ELSE IF ne("blocks") THEN 0
        ELSE 1

\* A durable state with its stat, and the file as it is at the reconnect: up
\* to MaxDiff fields of its stat have changed.
InitStat ==
    /\ CoreInit
    /\ \E changed \in SUBSET {"ino", "dev", "mode", "nlink", "uid", "gid", "rdev",
                              "size", "atime.tv_sec", "atime.tv_nsec",
                              "mtime.tv_sec", "mtime.tv_nsec", "ctime.tv_sec",
                              "ctime.tv_nsec", "blksize", "blocks"} :
          /\ Cardinality(changed) <= MaxDiff
          /\ kx = [state |-> "reconnect",
                   durable_stat |-> [f \in {"ino", "dev", "mode", "nlink", "uid",
                                            "gid", "rdev", "size", "atime.tv_sec",
                                            "atime.tv_nsec", "mtime.tv_sec",
                                            "mtime.tv_nsec", "ctime.tv_sec",
                                            "ctime.tv_nsec", "blksize", "blocks"}
                                     |-> 0],
                   changed |-> changed, rc |-> 0, filp |-> "none"]
    /\ ss = Idle
    /\ tcx = Idle
    /\ ox = Idle
    /\ ax = Idle
    /\ cx = Idle
    /\ rx = Idle
    /\ dx = Idle
    /\ sx = Idle
    /\ gx = Idle
    /\ nx = Idle
    /\ lx = Idle
    /\ tx = Idle

\* cifsd_durable_reconnect: the oplock state is verified (oplock_ok), the
\* file's stat is filled in and compared; on a mismatch the reference on the
\* file is dropped and the result is -EINVAL.
cifsd_durable_reconnect(oplock_ok) ==
    /\ kx.state = "reconnect"
    /\ LET stat == [f \in DOMAIN kx.durable_stat |->
                        IF f \in kx.changed THEN 1 ELSE kx.durable_stat[f]]
       IN  IF ~oplock_ok
           THEN kx' = [kx EXCEPT !.state = "done", !.rc = Err("EIO"), !.filp = "NULL"]
           ELSE IF cifsd_check_stat_info(kx.durable_stat, stat) = 0
           THEN kx' = [kx EXCEPT !.state = "done", !.rc = Err("EINVAL"), !.filp = "put"]
           ELSE kx' = [kx EXCEPT !.state = "done", !.rc = 0, !.filp = "held"]
    /\ UNCHANGED <<core, ss, tcx, ox, ax, cx, rx, dx, sx, gx, nx, lx, tx>>

NextStat == \E oplock_ok \in BOOLEAN : cifsd_durable_reconnect(oplock_ok)

SpecStat == InitStat /\ [][NextStat]_vars

(***************************************************************************)
(* Properties.                                                             *)
(***************************************************************************)
Files == 1..Len(file)
MasterFiles == 1..Len(mfile)

\* The Files bound to id i: inserted there and not unbound since.
BoundTo(i) == {f \in Files : file[f].fid = i /\ file[f].bound}

\* Worker w's handler is about to answer a request that quotes a fid which
\* close_id had already unbound when the request came in, and which no open
\* has been given since.
AnswersStale(w) ==
    /\ pc[w] = "reply"
    /\ req[w].stale
    /\ req[w].fid \in closed

\* C1: once CLOSE has unbound a fid, every later request quoting it, until an
\* open is given the id again, is answered INVALID_HANDLE and acts on no File.
C1_StaleFidIsInvalidHandle ==
    \A w \in Workers :
        AnswersStale(w) =>
            /\ rsp[w].status \in {"INVALID_HANDLE", "rejected"}
            /\ rsp[w].served = NoFile

\* What get_id_from_fidtable has to return for id i by the claim as written:
\* the payload from bind until unbind, null otherwise.
PayloadUntilUnbind(i) ==
    IF BoundTo(i) = {} THEN {NoFile} ELSE BoundTo(i)

\* The same, with the FREEING state taken into account: a File that close_id
\* has marked FREEING is not returned any more, though it is still bound.
PayloadUntilFreeing(i) ==
    LET live == {f \in BoundTo(i) : file[f].f_state # "FP_FREEING"}
    IN  IF live = {} THEN {NoFile} ELSE live

\* C2 as written: from bind until unbind is called every lookup of the id
\* returns the payload, and null after unbind.
C2_LookupUntilUnbind ==
    [][\A w \in Workers :
          (pc[w] = "lookup" /\ pc'[w] # "lookup") => fp'[w] \in PayloadUntilUnbind(id[w])]_vars

\* C2 amended: from bind until close_id marks the File FREEING every lookup of
\* the id returns exactly the payload bound to it, also across table growth
\* and allocations and releases of other ids; once the File is FREEING, and
\* after unbind, lookup returns null.
C2_LookupUntilFreeing ==
    [][\A w \in Workers :
          (pc[w] = "lookup" /\ pc'[w] # "lookup") => fp'[w] \in PayloadUntilFreeing(id[w])]_vars

\* A lookup has found the payload of an id that was bound before the table
\* grew.
C2_Witness ==
    \E w \in Workers :
        /\ pc[w] = "lk_get"
        /\ fp[w] \in BoundTo(id[w])
        /\ id[w] < NrOpenDefault
        /\ ftab.max_fids > NrOpenDefault
        /\ \E f \in Files : ~file[f].bound

\* C3: an id that cifsd_get_unused_id has handed to an open has its bit set and
\* its slot free, no other open holds it, every bound slot has its bit set, and
\* no File is bound under two ids.
C3_IdsAreUnique ==
    /\ \A w \in Workers :
          pc[w] = "dopen" =>
              /\ id[w] \in ftab.cifsd_bitmap
              /\ ftab.fileid[id[w]] = NoFile
              /\ \A v \in Workers : (v # w /\ pc[v] = "dopen") => id[v] # id[w]
    /\ \A i \in DOMAIN ftab.fileid :
          ftab.fileid[i] # NoFile =>
              /\ i \in ftab.cifsd_bitmap
              /\ BoundTo(i) = {ftab.fileid[i]}
              /\ \A j \in DOMAIN ftab.fileid : j # i => ftab.fileid[j] # ftab.fileid[i]
    /\ \A f \in Files : file[f].bound => ftab.fileid[file[f].fid] = f

\* Two opens hold ids at once in a table that has grown, after a failed open
\* has released an id and while a File is bound.
C3_Witness ==
    /\ \E w, v \in Workers : w # v /\ pc[w] = "dopen" /\ pc[v] = "dopen"
    /\ ftab.max_fids > NrOpenDefault
    /\ nfault > 0
    /\ \E f \in Files : file[f].bound

\* C4: the File get_id_from_fidtable is about to hand to its caller (the tests
\* passed, fp_get and the return are next) is not FREEING.
C4_NeverServedFreeing ==
    \A w \in Workers : pc[w] = "lk_get" => file[fp[w]].f_state # "FP_FREEING"

\* C5: a File is freed only at f_count zero, and never while a handler that
\* got it from get_id_from_fidtable still holds it.
C5_FreedOnlyUnreferenced ==
    /\ \A f \in Files : file[f].freed => file[f].f_count = 0
    /\ \A w \in Workers : fp[w] # NoFile => ~file[fp[w]].freed

\* close_id has unbound a File and waits in wait_on_freeing_fp while a reader
\* still holds the File.
C5_Witness ==
    \E w, v \in Workers :
        /\ pc[w] = "cl_wait"
        /\ pc[v] = "r_io"
        /\ fp[v] = fp[w]
        /\ ~file[fp[w]].freed
        /\ ~file[fp[w]].bound

\* Worker w is inside an open (smb_nt_create_andx, smb_open_andx) or inside a
\* close (smb_close, or the teardown of LOGOFF).
OpenInProgress(w) ==
    req[w].op \in {"NT_CREATE", "OPEN_ANDX"} /\ pc[w] \notin {"idle", "reply"}

CloseInProgress(w) ==
    req[w].op \in {"CLOSE", "LOGOFF", "TREE_DISCONNECT"} /\ pc[w] \notin {"idle", "reply"}

\* C6: whenever no open or close is in progress (and the server is up), the
\* count of every master file equals the number of Files on its fp list.
C6_CountIsListLength ==
    (panic = "none" /\ \A w \in Workers : ~OpenInProgress(w) /\ ~CloseInProgress(w))
        => \A m \in MasterFiles :
              ~mfile[m].freed => mfile[m].m_count = Len(mfile[m].m_fp_list)

\* The live opens of inode i: the Files bound in the FID table whose open has
\* returned.
LiveOpens(i) ==
    {f \in Files :
        /\ file[f].inode = i
        /\ file[f].bound
        /\ ~\E w \in Workers : OpenInProgress(w) /\ file[f].fid = id[w]}

\* The master files of inode i that are in the master-file table.
HashedFor(i) ==
    {k \in 1..Len(mfp_hashtable) : mfile[mfp_hashtable[k]].m_inode = i}

\* C7: an inode with at least one live open has exactly one master file in the
\* master-file table.
C7_OneMasterFilePerOpenInode ==
    \A i \in Inodes : LiveOpens(i) # {} => Cardinality(HashedFor(i)) = 1

\* The Files of inode i that smb_nt_create_andx has put on a master file's
\* list, closed or not.
NtOpens(i) == {f \in Files : file[f].inode = i /\ file[f].node # "init"}

\* C8: a file open through two FIDs with delete pending still exists while one
\* of the two has not been through close_id's master-file release, and once
\* both have been (no further open of it being under way) the pending delete
\* has been carried out: the file is unlinked and the flag is gone.
C8_DeleteOnLastClose ==
    \A i \in Inodes :
        Cardinality(NtOpens(i)) = 2 =>
            /\ ~exists[i] => NtOpens(i) \subseteq released
            /\ ( /\ NtOpens(i) \subseteq released
                 /\ \A w \in Workers : OpenInProgress(w) => req[w].inode # i )
               => \A m \in MasterFiles :
                     mfile[m].m_inode = i => "S_DEL_ON_CLS" \notin mfile[m].m_flags

\* Worker w runs a LOGOFF that is past its wait: it frees the trees and the
\* handles and drops the session.
InTeardown(w) ==
    req[w].op = "LOGOFF" /\ pc[w] \notin {"idle", "lo_begin", "lo_wait", "reply"}

\* The ids that are bound in the session's FID table.
BoundIds == {i \in DOMAIN ftab.fileid : ftab.fileid[i] # NoFile}

\* C9: a LOGOFF that has begun to tear the session down carries on to its end
\* (the server does not die in it), and when it has returned no FID of the
\* session is bound: the table is gone and a lookup of any fid finds nothing.
C9_LogoffUnbindsEveryFid ==
    \A w \in Workers :
        /\ InTeardown(w) => panic = "none"
        /\ (req[w].op = "LOGOFF" /\ pc[w] = "reply" /\ rsp[w].status = "OK")
              => /\ BoundIds = {}
                 /\ \A f \in Files : ~file[f].bound
                 /\ \A i \in 1..MaxFid : get_id_from_fidtable(ftab, i) = NoFile

TeardownAlone(w) ==
    /\ req[w].op = "TREE_DISCONNECT"
    /\ pc[w] # "idle"
    /\ \A v \in Workers \ {w} : pc[v] = "idle"

\* C11: the teardown of a tree (TREE_DISCONNECT running by itself) goes through
\* without ending the server; when it has answered, no File of the tree is
\* bound any more; and the Files it closes are Files of that tree only, so the
\* Files of the other trees stay bound.
C11_TeardownClosesItsTreeOnly ==
    \A w \in Workers :
        /\ TeardownAlone(w) => panic = "none"
        /\ (TeardownAlone(w) /\ pc[w] = "reply" /\ rsp[w].status = "OK") =>
              \A f \in Files : file[f].bound => file[f].tid # req[w].tid
        /\ (req[w].op = "TREE_DISCONNECT" /\ fp[w] # NoFile) =>
              file[fp[w]].tid = req[w].tid

\* C12: a connection never holds more than one active session: of the sessions
\* listed in conn->cifsd_sess at most one is valid, also after a
\* SESSION_SETUP_ANDX that arrives while a session is active.
C12_OneActiveSession ==
    ss.state = "run" =>
        Cardinality({k \in 1..Len(ss.cifsd_sess) : ss.cifsd_sess[k].valid}) <= 1

\* C13: the host check (with memory to work in) allows the peer when both
\* lists are empty, allows a peer listed in allow_hosts, denies a peer listed
\* in deny_hosts and not in allow_hosts, and allows a peer that is not in
\* deny_hosts when allow_hosts is empty and deny_hosts is not.
C13_HostCheck ==
    (tcx.state = "done" /\ tcx.named /\ ~tcx.oom) =>
        LET A == tcx.share.allow_hosts.tokens
            D == tcx.share.deny_hosts.tokens
            peer == tcx.peeraddr
        IN  /\ (A = {} /\ D = {}) => tcx.host > 0
            /\ peer \in A => tcx.host > 0
            /\ (peer \in D /\ peer \notin A) => tcx.host < 0
            /\ (A = {} /\ D # {} /\ peer \notin D) => tcx.host > 0

\* C14: the tree connection granted on a share without guest_ok is writeable
\* as the share declares, not writeable when the user is in read_list, and
\* writeable when the user is in write_list.
C14_WriteableFromLists ==
    (tcx.state = "done" /\ tcx.tcon /\ ~tcx.share.guestok) =>
        tcx.writeable =
            IF tcx.usr \in tcx.share.write_list.tokens THEN TRUE
            ELSE IF tcx.usr \in tcx.share.read_list.tokens THEN FALSE
            ELSE tcx.share.writeable

\* C15: the tree connection granted on a share with guest_ok is writeable
\* exactly when the share declares it, whatever the user lists hold.
C15_GuestWriteableAsDeclared ==
    (tcx.state = "done" /\ tcx.tcon /\ tcx.share.guestok) =>
        tcx.writeable = tcx.share.writeable

\* C16: on a tree connection that is not writeable OPEN_ANDX creates no file,
\* truncates none and returns no Fid opened for writing.
C16_OpenAndXGated ==
    (ox.state = "done" /\ ~ox.writeable) =>
        /\ ~ox.created
        /\ ~ox.truncated
        /\ ~(ox.Fid # 0 /\ ox.Access \in {"WRITE", "READ_WRITE"})

\* C17: an AndX chain, also one in which a command fails, is answered by one
\* response in which following AndXOffset from the first block visits the
\* blocks of the commands served, in order, and ends at a block whose
\* AndXCommand is 0xFF (a response without any block has nothing to walk).
C17_AndXWalkEnds ==
    ax.state = "sent" =>
        /\ ax.nsent = 1
        /\ ax.blocks # <<>> => andx_walk(ax.blocks, 1)

C19_CancelNoMatchIsNoOp ==
    [][(cx.state = "run" /\ cx.cancel # NoWork /\ cx'.cancel = NoWork
         /\ \A k \in 1..Len(cx.requests) : cx.work[cx.requests[k]].Mid # cx.cancel) =>
          /\ cx'.work = cx.work
          /\ cx'.requests = cx.requests
          /\ cx'.sequence_number = cx.sequence_number]_vars

\* An NT_CANCEL found no request with its Mid while requests were in flight.
C19_Witness ==
    /\ cx.state = "run"
    /\ cx.last = "nomatch"
    /\ cx.requests # <<>>
    /\ cx.cancelled = {}

\* C20: a READ (of at least one byte, with memory for its buffer) whose range
\* overlaps an exclusive lock held through another open file of the inode is
\* answered FILE_LOCK_CONFLICT.
C20_ReadLockConflictStatus ==
    (/\ rx.state = "done"
     /\ rx.op = "READ"
     /\ rx.fp # NoFile
     /\ ~rx.isdir
     /\ rx.count > 0
     /\ rx.fault # "alloc_data_mem"
     /\ \E k \in 1..Len(rx.flc_posix) :
           /\ rx.flc_posix[k].fl_type = "F_WRLCK"
           /\ rx.flc_posix[k].fl_file # rx.fp
           /\ rx.flc_posix[k].fl_start <= rx.pos + rx.count - 1
           /\ rx.pos <= rx.flc_posix[k].fl_end)
    => rx.status = "FILE_LOCK_CONFLICT"

\* C21: a read or a write through a File (of a file or of a stream), or a
\* truncating write, whose range overlaps a lock that is a write lock of
\* another File, or a read lock when the request writes, fails with Busy
\* (-EAGAIN) and neither reads nor changes the data.  The range of a read or
\* write is [pos, pos + count); that of a truncation lies between the new and
\* the old size.
C21_LockedRangeIsBusy ==
    (/\ rx.state = "done"
     /\ rx.fp # NoFile
     /\ ~rx.isdir
     /\ rx.fault = "none"
     /\ LET writes == rx.op \in {"WRITE", "TRUNCATE"}
            first == IF rx.op # "TRUNCATE" THEN rx.pos
                     ELSE IF rx.pos < rx.i_size THEN rx.pos ELSE rx.i_size
            last == IF rx.op # "TRUNCATE" THEN rx.pos + rx.count - 1
                    ELSE IF rx.pos < rx.i_size THEN rx.i_size - 1 ELSE rx.pos - 1
        IN  /\ first <= last
            /\ \E k \in 1..Len(rx.flc_posix) :
                  /\ rx.flc_posix[k].fl_start <= last
                  /\ first <= rx.flc_posix[k].fl_end
                  /\ \/ rx.flc_posix[k].fl_type = "F_WRLCK" /\ rx.flc_posix[k].fl_file # rx.fp
                     \/ rx.flc_posix[k].fl_type = "F_RDLCK" /\ writes)
    => (/\ rx.io.err = Err("EAGAIN")
        /\ ~rx.io.modified
        /\ rx.op = "READ" => rx.nbytes < 0)

\* C22: every write the adapter performs, on a file or on a stream and whatever
\* the oplock configuration, comes after a break of the file's level II oplocks.
C22_WriteBreaksLevel2 ==
    (rx.state = "done" /\ rx.op = "WRITE" /\ rx.io.modified) => rx.io.broke

\* C23: a write to a stream that would grow the value past the cap is not
\* refused: the value stored has exactly the cap's size, the first cap - pos
\* bytes of the data are copied into it, and cap - pos bytes are reported.
C23_StreamWriteCappedAtMax ==
    (/\ rx.state = "done"
     /\ rx.op = "WRITE"
     /\ rx.is_stream
     /\ rx.fp # NoFile
     /\ rx.fault = "none"
     /\ rx.pos <= XattrSizeMax
     /\ rx.pos + rx.count > XattrSizeMax)
    => (/\ rx.io.err = 0
        /\ rx.io.stored = XattrSizeMax
        /\ rx.io.copied = XattrSizeMax - rx.pos
        /\ rx.io.written = XattrSizeMax - rx.pos
        /\ ~rx.io.overflow)

\* The entries the responses sent so far carry, one response after the other.
RECURSIVE Emitted(_)
Emitted(log) ==
    IF log = <<>> THEN <<>>
    ELSE Emitted(SubSeq(log, 1, Len(log) - 1)) \o log[Len(log)].names

\* name matches the pattern, a '*' of which stands for any characters, when the
\* case of the letters is ignored.
WildMatch(name, pattern) ==
    LET up(c) == CASE c = "b" -> "B" [] c = "t" -> "T" [] OTHER -> c
        star == CHOOSE i \in 1..Len(pattern) : pattern[i] = "*"
        tail == Len(pattern) - star
    IN  /\ Len(name) >= Len(pattern) - 1
        /\ \A i \in 1..(star - 1) : up(name[i]) = up(pattern[i])
        /\ \A i \in 1..tail :
              up(name[Len(name) - tail + i]) = up(pattern[star + i])

\* C24: a FIND_FIRST that cannot return the whole directory answers
\* EndofSearch = 0 with a LastNameOffset that is not zero, and once the search
\* has found the end of the directory the entries of its responses, one
\* response after the other, are the entries of the directory, each once.
C24_SearchReturnsEveryEntryOnce ==
    dx.pattern = <<"*">> =>
        /\ \A i \in 1..Len(dx.log) :
              (dx.log[i].op = "FIND_FIRST" /\ dx.log[i].status = "OK"
                  /\ ~dx.log[i].EndofSearch) => dx.log[i].LastNameOffset # 0
        /\ dx.rsp.EndofSearch => Emitted(dx.log) = dx.dir

\* C25: on a FIND_FIRST whose path ends in a wildcard pattern the search
\* emits the names that match the pattern, whatever the case of their
\* letters, and skips the others.
C25_WildcardFilters ==
    (\E i \in 1..Len(dx.pattern) : dx.pattern[i] = "*") =>
        /\ \A i \in 1..Len(Emitted(dx.log)) :
              WildMatch(Emitted(dx.log)[i], dx.pattern)
        /\ dx.rsp.EndofSearch =>
              \A k \in 1..Len(dx.dir) :
                  WildMatch(dx.dir[k], dx.pattern)
                      => \E i \in 1..Len(Emitted(dx.log)) :
                            Emitted(dx.log)[i] = dx.dir[k]

\* C26: the search that finds its last entry sends it with EndofSearch = 1,
\* and every FIND_NEXT on its search id after that response is answered
\* NO_MORE_FILES.
C26_NoMoreFilesAfterEnd ==
    /\ dx.rsp.EndofSearch => dx.log # <<>> /\ dx.log[Len(dx.log)] = dx.rsp
    /\ \A i, j \in 1..Len(dx.log) :
          (i < j /\ dx.log[i].EndofSearch /\ dx.log[j].op = "FIND_NEXT")
              => dx.log[j].status = "NO_MORE_FILES"

\* C27: for every POSIX mode, the mode read back from the DACL that was built
\* from it (three ALLOWED ACEs: owner, group, everyone) is that mode.
C27_DaclRoundTrip ==
    sx.state = "parsed" => sx.cf_mode = sx.i_mode

\* C28: no sequence or interleaving of requests brings the server to one of
\* its fatal assertions: BUG_ON a slot that is taken at bind, BUG_ON a slot
\* that is empty at unbind, BUG() when the wait for a File's users runs out.
C28_NoFatalAssertion ==
    panic # "BUG"

\* C29: once the requests that used a FID have returned, the close of the FID
\* (by CLOSE, TREE_DISCONNECT or LOGOFF) completes: when it comes to wait for
\* the File's users and no other request is being served, nobody holds the
\* File and the wait is over.
C29_CloseCompletes ==
    \A w \in Workers :
        (pc[w] = "cl_wait" /\ \A v \in Workers \ {w} : pc[v] = "idle")
            => file[fp[w]].f_count = 0

\* C30: a master file lives as long as the longest-holding File.  It is not
\* freed while a File that is not being closed points to it or is on its list,
\* nor while an open that has just looked it up holds it; and once the last
\* File of its inode has been through close_id's release of the master file
\* (no open of the inode being under way) it is out of the master-file table
\* and freed.
C30_MasterFileLifetime ==
    /\ \A m \in MasterFiles :
          mfile[m].freed =>
              /\ mfile[m].m_fp_list = <<>>
              /\ \A f \in Files :
                    (file[f].f_mfp = m /\ ~file[f].freed)
                        => file[f].f_state = "FP_FREEING"
              /\ \A w \in Workers : OpenInProgress(w) => mfp[w] # m
    /\ \A i \in Inodes :
          ( /\ NtOpens(i) # {}
            /\ NtOpens(i) \subseteq released
            /\ \A w \in Workers : OpenInProgress(w) => req[w].inode # i )
          => \A m \in MasterFiles :
                mfile[m].m_inode = i
                    => /\ mfile[m].freed
                       /\ \A k \in 1..Len(mfp_hashtable) : mfp_hashtable[k] # m

\* C31: every File that an open has bound in the FID table and handed out,
\* and that is not being closed, points to a master file and is on that master
\* file's list, so that close_id finds a master file to release.
C31_EveryFileHasMasterFile ==
    \A f \in Files :
        ( /\ file[f].bound
          /\ file[f].f_state # "FP_FREEING"
          /\ ~\E w \in Workers : OpenInProgress(w) /\ file[f].fid = id[w] )
        => /\ file[f].f_mfp # NoMfp
           /\ \E k \in 1..Len(mfile[file[f].f_mfp].m_fp_list) :
                 mfile[file[f].f_mfp].m_fp_list[k] = f

\* C32: of two concurrent CLOSE requests for one FID only one tears the File
\* down: two workers are never both past close_id's state change (list
\* removal done, m_count decrement and unbind ahead or done) for one File.
C32_OneCloseTearsDown ==
    \A w \in Workers : \A v \in Workers \ {w} :
        ( /\ req[w].op = "CLOSE" /\ req[v].op = "CLOSE"
          /\ pc[w] \in {"cl_mfp", "cl_delete", "cl_wait"}
          /\ pc[v] \in {"cl_mfp", "cl_delete", "cl_wait"}
          /\ fp[w] # NoFile )
        => fp[w] # fp[v]

\* C33: growing a FID table never races with a traversal: a table scan never
\* goes on reading through a pointer to a table that a growth has freed.
C33_NoScanOfFreedTable ==
    gx.scan.pc = "loop" => gx.scan.ftab \notin gx.freed

\* C34: an open is all or nothing for the FID table: when its handler returns
\* success the response carries the id its File is bound to, and when it
\* returns an error no File of the request is left bound.
C34_OpenIsAtomic ==
    \A w \in Workers :
        (pc[w] = "reply" /\ req[w].op \in {"NT_CREATE", "OPEN_ANDX"}) =>
            IF rsp[w].status = "OK"
            THEN /\ rsp[w].served # NoFile
                 /\ rsp[w].fid = file[rsp[w].served].fid
            ELSE \A f \in Files : file[f].bound => file[f].fid # rsp[w].fid

\* C35: on a tree connection that is not writeable, an NT_CREATE_ANDX of a
\* file that exists, asking for no creation, no truncation and no write
\* access, and meeting no host failure, is answered with success and a valid
\* Fid of a file opened for reading.
C35_ReadOnlyTreeOpensForRead ==
    ( /\ nx.state = "done"
      /\ ~nx.writeable
      /\ nx.file_present
      /\ nx.CreateDisposition \in {"FILE_OPEN", "FILE_OPEN_IF"}
      /\ "GENERIC_WRITE" \notin nx.DesiredAccess
      /\ nx.status = "OK" )
    => /\ nx.Fid >= CIFSD_START_FID
       /\ nx.opened = "O_RDONLY"

\* The place of a lock in the order mft_bucket > m_lock > f_lock >
\* fidtable.lock.
LockRank(l) ==
    CASE l = "mfp_hash_lock" -> 4
      [] l = "m_lock" -> 3
      [] l = "f_lock" -> 2
      [] l = "fidtable_lock" -> 1

\* C36: locks are taken top-down: a worker never holds a lock that it took
\* while holding one lower in the order.
C36_LocksTakenTopDown ==
    \A w \in Workers : \A i \in 1..Len(lx.held[w]) : \A j \in 1..Len(lx.held[w]) :
        i < j => LockRank(lx.held[w][i]) > LockRank(lx.held[w][j])

\* C37: release clears the bit of every id allocate hands out: when no open
\* and no close is in progress, every id whose bit is set is bound to a File.
C37_ReleaseFreesEveryId ==
    (\A w \in Workers : ~OpenInProgress(w) /\ ~CloseInProgress(w))
        => ftab.cifsd_bitmap \subseteq BoundIds

\* C38: two live tree connections never carry the same tree id.
C38_TreeIdsAreUnique ==
    \A i \in 1..Len(tx.tcon_list) : \A j \in 1..Len(tx.tcon_list) :
        i # j => tx.tcon_list[i].Tid # tx.tcon_list[j].Tid

\* C39: a durable reconnect fails when the stat differs from the stored one in
\* any of inode, device, uid, gid, mode, size, blocks, or in the seconds or
\* the nanoseconds of atime, mtime or ctime.
C39_AnyStatMismatchFails ==
    ( /\ kx.state = "done"
      /\ kx.changed \cap {"ino", "dev", "uid", "gid", "mode", "size", "blocks",
                          "atime.tv_sec", "atime.tv_nsec", "mtime.tv_sec",
                          "mtime.tv_nsec", "ctime.tv_sec", "ctime.tv_nsec"} # {} )
    => kx.rc < 0

\* C40: with the table lock free, every id in [1, start_pos) of the table is
\* allocated and start_pos is at least 1; and each id cifsd_get_unused_id
\* hands out is the smallest id >= 1 that was not allocated, never 0.
C40_HintAndSmallestFree ==
    /\ [](ftab.max_fids > 0 =>
            /\ ftab.start_pos >= CIFSD_START_FID
            /\ \A i \in CIFSD_START_FID..(ftab.start_pos - 1) : i \in ftab.cifsd_bitmap)
    /\ [][\A w \in Workers :
            (pc[w] = "alloc" /\ pc'[w] = "dopen") =>
                /\ id'[w] >= CIFSD_START_FID
                /\ id'[w] \notin ftab.cifsd_bitmap
                /\ \A j \in CIFSD_START_FID..(id'[w] - 1) : j \in ftab.cifsd_bitmap]_vars

\* The table has grown, a release has moved the hint down to a free id below
\* an allocated one, and an open holds an id it has just been given.
C40_Witness ==
    /\ ftab.max_fids > NrOpenDefault
    /\ ftab.start_pos < ftab.max_fids
    /\ ftab.start_pos \notin ftab.cifsd_bitmap
    /\ \E i \in ftab.cifsd_bitmap : i > ftab.start_pos
    /\ \E w \in Workers : pc[w] = "dopen"
====
